---------------------------- MODULE Spec2Model ----------------------------
(***************************************************************************)
(* A model of pbi-docs (package pbi_extractor): the categorizer, the DAX   *)
(* formatter, process_schema, parse_datamodel_schema and the i18n lookup.  *)
(*                                                                         *)
(* Python strings on which the code works character by character are      *)
(* sequences of one-character strings; strings that the code only passes  *)
(* around or looks up (dictionary keys, translations, exception names)    *)
(* are TLA+ strings.                                                       *)
(***************************************************************************)
EXTENDS Integers, Sequences, FiniteSets, Bags, TLC

VARIABLES
    pc,                 \* where the operation in flight stands
    call,               \* the operation and its arguments
    result,             \* what it returned, or the exception that escaped
    cleaned_metadata,   \* process_schema: the metadata being assembled
    idx,                \* the running loop's index
    warnings,           \* the warnings printed so far
    last_error,         \* parse_datamodel_schema: last_error
    context_entries,    \* generate_model_context: context_entries
    doc,                \* generate_markdown: doc, one element per piece
    success_count,      \* main: success_count
    attempted,          \* main: the paths given to process_file so far
    diff_files          \* main: the diff files written so far

vars == <<pc, call, result, cleaned_metadata, idx, warnings, last_error,
          context_entries, doc, success_count, attempted, diff_files>>

\* What the generators and the command line write.
written == <<context_entries, doc, success_count, attempted, diff_files>>

\* Python's None where a character string is expected: a one-element
\* sequence whose element is no character.
None == <<"None">>

\* The unused value of a variable a specification does not involve.
Idle == "idle"

Return(v) == [exc |-> "none", value |-> v]

Raise(e) == [exc |-> e, value |-> None]

NoResult == [exc |-> "pending", value |-> None]

(***************************************************************************)
(* Character strings                                                       *)
(***************************************************************************)
UpperCase ==
    <<"A","B","C","D","E","F","G","H","I","J","K","L","M","N","O","P","Q",
      "R","S","T","U","V","W","X","Y","Z","Ñ">>

LowerCase ==
    <<"a","b","c","d","e","f","g","h","i","j","k","l","m","n","o","p","q",
      "r","s","t","u","v","w","x","y","z","ñ">>

LowerChar(c) ==
    IF \E i \in 1..Len(UpperCase) : UpperCase[i] = c
    THEN LowerCase[CHOOSE i \in 1..Len(UpperCase) : UpperCase[i] = c]
    ELSE c

UpperChar(c) ==
    IF \E i \in 1..Len(LowerCase) : LowerCase[i] = c
    THEN UpperCase[CHOOSE i \in 1..Len(LowerCase) : LowerCase[i] = c]
    ELSE c

\* str.lower()
Lower(s) == [i \in 1..Len(s) |-> LowerChar(s[i])]

\* str.upper()
Upper(s) == [i \in 1..Len(s) |-> UpperChar(s[i])]

\* w in s
Contains(s, w) ==
    \E i \in 1..(Len(s) - Len(w) + 1) : SubSeq(s, i, i + Len(w) - 1) = w

\* any(x in s for x in words)
ContainsAny(s, words) == \E k \in 1..Len(words) : Contains(s, words[k])

\* s.startswith(p)
StartsWith(s, p) == Len(p) <= Len(s) /\ SubSeq(s, 1, Len(p)) = p

\* x or ""
OrEmpty(x) == IF x = None THEN <<>> ELSE x

\* The concatenation of a sequence of strings.
RECURSIVE Concat(_)
Concat(parts) ==
    IF parts = <<>> THEN <<>> ELSE Head(parts) \o Concat(Tail(parts))

\* All sequences of at most n elements of S.
SeqsUpTo(S, n) == UNION {[1..m -> S] : m \in 0..n}

Range(f) == {f[i] : i \in DOMAIN f}

\* F(v), with v evaluated once.
Let(v, F(_)) == CHOOSE r \in {F(x) : x \in {v}} : TRUE

(***************************************************************************)
(* categorizer.py                                                          *)
(***************************************************************************)
technical_patterns ==
    << <<"L","o","c","a","l","D","a","t","e","T","a","b","l","e","_">>,
       <<"D","a","t","e","T","a","b","l","e","T","e","m","p","l","a","t","e","_">>,
       <<"P","a","r","a","m","e","t","e","r","T","a","b","l","e","_">> >>

is_technical_table_substring(table_name) ==
    \E k \in 1..Len(technical_patterns) :
        Contains(table_name, technical_patterns[k])

is_technical_table(table_name) ==
    \E k \in 1..Len(technical_patterns) :
        StartsWith(table_name, technical_patterns[k])

RevenueWords ==
    << <<"r","e","v","e","n","u","e">>, <<"s","a","l","e","s">>,
       <<"v","e","n","t","a","s">>, <<"i","n","g","r","e","s","o","s">> >>

CostWords ==
    << <<"c","o","s","t">>, <<"c","o","s","t","o">>,
       <<"e","x","p","e","n","s","e">>, <<"g","a","s","t","o">> >>

MarginWords ==
    << <<"m","a","r","g","i","n">>, <<"m","a","r","g","e","n">>,
       <<"p","r","o","f","i","t">>, <<"b","e","n","e","f","i","c","i","o">> >>

PercentageWords ==
    << <<"%">>, <<"p","e","r","c","e","n","t">>,
       <<"p","o","r","c","e","n","t","a","j","e">>,
       <<"r","a","t","i","o">>, <<"r","a","t","e">> >>

TemporalWords ==
    << <<"y","t","d">>, <<"s","p","l","y">>, <<"y","e","a","r">>,
       <<"a","ñ","o">>, <<"p","e","r","i","o","d">> >>

AggregationNameWords ==
    << <<"c","o","u","n","t">>, <<"t","o","t","a","l">>, <<"s","u","m">>,
       <<"n","u","m","b","e","r">> >>

AggregationExprWords ==
    << <<"s","u","m">>, <<"c","o","u","n","t">>, <<"t","o","t","a","l">> >>

RatioWords ==
    << <<"/">>, <<"d","i","v","i","d","e">>, <<"%">> >>

CalendarWords ==
    << <<"d","a","t","e","a","d","d">>, <<"d","a","t","e","s","y","t","d">>,
       <<"d","a","t","e","s","m","t","d">>, <<"d","a","t","e","s","q","t","d">> >>

FilteringWords ==
    << <<"f","i","l","t","e","r">>, <<"a","l","l">>,
       <<"s","e","l","e","c","t","e","d","v","a","l","u","e">>,
       <<"h","a","s","o","n","e","v","a","l","u","e">> >>

\* The rules of categorize_measure that read the expression only.
categorize_by_expression(expr_lower) ==
    IF ContainsAny(expr_lower, RatioWords) THEN "ratio"
    ELSE IF ContainsAny(expr_lower, CalendarWords) THEN "calendar_intelligence"
    ELSE IF ContainsAny(expr_lower, FilteringWords) THEN "filtering"
    ELSE "other"

\* A categorizer that lets the expression's ratio rule win over the name.
categorize_measure_expression_first(measure_name, expression) ==
    LET name_lower == Lower(OrEmpty(measure_name))
        expr_lower == Lower(OrEmpty(expression))
    IN  IF ContainsAny(expr_lower, RatioWords) THEN "ratio"
        ELSE IF ContainsAny(name_lower, RevenueWords) THEN "revenue"
        ELSE IF ContainsAny(name_lower, CostWords) THEN "cost"
        ELSE IF ContainsAny(name_lower, MarginWords) THEN "margin"
        ELSE IF ContainsAny(name_lower, PercentageWords) THEN "percentage"
        ELSE IF ContainsAny(name_lower, TemporalWords) THEN "temporal"
        ELSE IF /\ ContainsAny(name_lower, AggregationNameWords)
                /\ ContainsAny(expr_lower, AggregationExprWords)
             THEN "aggregation"
        ELSE categorize_by_expression(expr_lower)

\* A categorizer whose aggregation rule does not look at the expression.
categorize_measure_name_only_aggregation(measure_name, expression) ==
    LET name_lower == Lower(OrEmpty(measure_name))
        expr_lower == Lower(OrEmpty(expression))
    IN  IF ContainsAny(name_lower, RevenueWords) THEN "revenue"
        ELSE IF ContainsAny(name_lower, CostWords) THEN "cost"
        ELSE IF ContainsAny(name_lower, MarginWords) THEN "margin"
        ELSE IF ContainsAny(name_lower, PercentageWords) THEN "percentage"
        ELSE IF ContainsAny(name_lower, TemporalWords) THEN "temporal"
        ELSE IF ContainsAny(name_lower, AggregationNameWords)
             THEN "aggregation"
        ELSE categorize_by_expression(expr_lower)

categorize_measure(measure_name, expression) ==
    LET name_lower == Lower(OrEmpty(measure_name))
        expr_lower == Lower(OrEmpty(expression))
    IN  IF ContainsAny(name_lower, RevenueWords) THEN "revenue"
        ELSE IF ContainsAny(name_lower, CostWords) THEN "cost"
        ELSE IF ContainsAny(name_lower, MarginWords) THEN "margin"
        ELSE IF ContainsAny(name_lower, PercentageWords) THEN "percentage"
        ELSE IF ContainsAny(name_lower, TemporalWords) THEN "temporal"
        ELSE IF /\ ContainsAny(name_lower, AggregationNameWords)
                /\ ContainsAny(expr_lower, AggregationExprWords)
             THEN "aggregation"
        ELSE categorize_by_expression(expr_lower)

IdentifierWords ==
    << <<"i","d">>, <<"s","k",".">>, <<"c","k",".">>, <<"k","e","y">> >>

TemporalTypes == { <<"d","a","t","e","T","i","m","e">>, <<"d","a","t","e">> }

TemporalNameWords == << <<"f","e","c","h","a">>, <<"d","a","t","e">> >>

NumericTypes ==
    { <<"i","n","t","6","4">>, <<"d","o","u","b","l","e">>,
      <<"d","e","c","i","m","a","l">> }

StringType == <<"s","t","r","i","n","g">>

MetricWords ==
    << <<"c","a","n","t","i","d","a","d">>, <<"m","o","n","t","o">>,
       <<"t","o","t","a","l">>, <<"c","o","u","n","t">>,
       <<"a","m","o","u","n","t">> >>

DescriptiveWords ==
    << <<"n","o","m","b","r","e">>,
       <<"d","e","s","c","r","i","p","c","i","o","n">>,
       <<"n","a","m","e">>,
       <<"d","e","s","c","r","i","p","t","i","o","n">> >>

\* What get_column_category answers for a name without identifier marker.
category_by_type(data_type, name_lower) ==
    IF data_type \in TemporalTypes \/ ContainsAny(name_lower, TemporalNameWords)
    THEN "temporal"
    ELSE IF data_type \in NumericTypes
    THEN IF ContainsAny(name_lower, MetricWords) THEN "metric" ELSE "numeric"
    ELSE IF data_type = StringType
    THEN IF ContainsAny(name_lower, DescriptiveWords)
         THEN "descriptive" ELSE "categorical"
    ELSE "other"

\* A categorizer that looks at the data type before the identifier markers.
get_column_category_type_first(data_type, column_name) ==
    LET name_lower == Lower(OrEmpty(column_name))
    IN  IF data_type \in NumericTypes /\ ContainsAny(name_lower, MetricWords)
        THEN "metric"
        ELSE IF ContainsAny(name_lower, IdentifierWords) THEN "identifier"
        ELSE category_by_type(data_type, name_lower)

get_column_category(data_type, column_name) ==
    LET name_lower == Lower(OrEmpty(column_name))
    IN  IF ContainsAny(name_lower, IdentifierWords) THEN "identifier"
        ELSE category_by_type(data_type, name_lower)

(***************************************************************************)
(* formatters.py                                                           *)
(***************************************************************************)
\* The characters str.strip() removes and the pattern \s matches.
IsSpace(c) == c \in {" ", "\t", "\n", "\r"}

Digits == {"0","1","2","3","4","5","6","7","8","9"}

\* The characters the pattern \w matches.
IsWord(c) ==
    c \in Range(UpperCase) \cup Range(LowerCase) \cup Digits \cup {"_"}

RECURSIVE LStrip(_)
\* str.lstrip()
LStrip(s) ==
    IF s # <<>> /\ IsSpace(Head(s)) THEN LStrip(Tail(s)) ELSE s

RECURSIVE RStrip(_)
\* str.rstrip()
RStrip(s) ==
    IF s # <<>> /\ IsSpace(s[Len(s)]) THEN RStrip(SubSeq(s, 1, Len(s) - 1))
    ELSE s

\* str.strip()
Strip(s) == LStrip(RStrip(s))

RECURSIVE SplitFrom(_, _, _)
SplitFrom(s, sep, current) ==
    IF s = <<>> THEN <<current>>
    ELSE IF Head(s) = sep THEN <<current>> \o SplitFrom(Tail(s), sep, <<>>)
    ELSE SplitFrom(Tail(s), sep, Append(current, Head(s)))

\* s.split(sep), sep one character
Split(s, sep) == SplitFrom(s, sep, <<>>)

RECURSIVE Join(_, _)
\* sep.join(lines)
Join(lines, sep) ==
    IF lines = <<>> THEN <<>>
    ELSE IF Len(lines) = 1 THEN lines[1]
    ELSE lines[1] \o <<sep>> \o Join(Tail(lines), sep)

\* ' ' * n
Spaces(n) == [i \in 1..n |-> " "]

\* The first index from i on whose character is not one of the kind, or
\* Len(s) + 1.
RECURSIVE SkipWhile(_, _, _)
SkipWhile(s, i, blanksOnly) ==
    IF i <= Len(s) /\ (IF blanksOnly THEN s[i] \in {" ", "\t"}
                                      ELSE IsSpace(s[i]))
    THEN SkipWhile(s, i + 1, blanksOnly) ELSE i

RECURSIVE CollapseBlanks(_, _)
\* re.sub(r"[ \t]+", " ", s), from index i on
CollapseBlanks(s, i) ==
    IF i > Len(s) THEN <<>>
    ELSE IF s[i] \in {" ", "\t"}
    THEN <<" ">> \o CollapseBlanks(s, SkipWhile(s, i, TRUE))
    ELSE <<s[i]>> \o CollapseBlanks(s, i + 1)

\* clean_dax_expression for a str (or None) argument.
clean_dax_expression(expression) ==
    IF expression = None \/ expression = <<>> THEN <<>>
    ELSE LET lines == Split(expression, "\n")
             stripped == [i \in 1..Len(lines) |-> RStrip(lines[i])]
             cleaned_lines == SelectSeq(stripped, LAMBDA l : l # <<>>)
         IN  CollapseBlanks(Join(cleaned_lines, "\n"), 1)

\* The names of complex_patterns, in their order.
complex_functions ==
    << <<"C","A","L","C","U","L","A","T","E">>, <<"I","F">>,
       <<"S","W","I","T","C","H">>, <<"F","I","L","T","E","R">>,
       <<"T","O","T","A","L","Y","T","D">>, <<"T","O","T","A","L","Q","T","D">>,
       <<"T","O","T","A","L","M","T","D">>,
       <<"S","A","M","E","P","E","R","I","O","D","L","A","S","T","Y","E","A","R">>,
       <<"D","A","T","E","S","Y","T","D">>, <<"D","I","V","I","D","E">> >>

\* The replacement's tail: "(\n    ".
OpenAndIndent == <<"(", "\n", " ", " ", " ", " ">>

\* Where \b(NAME)\s*\( matches at index i, the index of its "("; else 0.
FunctionMatch(s, i, name) ==
    LET n == Len(name)
        j == SkipWhile(s, i + n, FALSE)
    IN  IF /\ i + n - 1 <= Len(s)
           /\ Upper(SubSeq(s, i, i + n - 1)) = name
           /\ (i = 1 \/ ~IsWord(s[i - 1]))
           /\ j <= Len(s)
           /\ s[j] = "("
        THEN j ELSE 0

RECURSIVE SubFunction(_, _, _)
\* re.sub(r'\b(NAME)\s*\(', r'\1(\n    ', s, flags=re.IGNORECASE), from i on
SubFunction(s, i, name) ==
    IF i > Len(s) THEN <<>>
    ELSE LET m == FunctionMatch(s, i, name)
         IN  IF m > 0
             THEN SubSeq(s, i, i + Len(name) - 1) \o OpenAndIndent
                      \o SubFunction(s, m + 1, name)
             ELSE <<s[i]>> \o SubFunction(s, i + 1, name)

RECURSIVE ApplyPatterns(_, _)
\* The loop over complex_patterns, from pattern k on.
ApplyPatterns(formatted, k) ==
    IF k > Len(complex_functions) THEN formatted
    ELSE ApplyPatterns(SubFunction(formatted, 1, complex_functions[k]), k + 1)

RECURSIVE SubCommas(_, _)
\* re.sub(r',\s*', ',\n    ', s), from i on
SubCommas(s, i) ==
    IF i > Len(s) THEN <<>>
    ELSE IF s[i] = ","
    THEN <<",", "\n", " ", " ", " ", " ">>
             \o SubCommas(s, SkipWhile(s, i + 1, FALSE))
    ELSE <<s[i]>> \o SubCommas(s, i + 1)

\* The last index in lo..hi holding a newline, or 0.
LastNewline(s, lo, hi) ==
    IF \E j \in lo..hi : s[j] = "\n"
    THEN CHOOSE j \in lo..hi :
             s[j] = "\n" /\ \A k \in (j + 1)..hi : s[k] # "\n"
    ELSE 0

RECURSIVE SubBlankLines(_, _)
\* re.sub(r'\n\s*\n', '\n', s), from i on
SubBlankLines(s, i) ==
    IF i > Len(s) THEN <<>>
    ELSE LET j == IF s[i] = "\n"
                  THEN LastNewline(s, i + 1, SkipWhile(s, i + 1, FALSE) - 1)
                  ELSE 0
         IN  IF j > 0 THEN <<"\n">> \o SubBlankLines(s, j + 1)
             ELSE <<s[i]>> \o SubBlankLines(s, i + 1)

is_complex_function_line(line) ==
    LET stripped == Strip(line)
    IN  \E k \in 1..Len(complex_functions) :
            StartsWith(Upper(stripped), Append(complex_functions[k], "("))

\* stripped.split('(')[0]
BeforeParen(stripped) == Split(stripped, "(")[1]

\* list.pop()
Pop(stack) ==
    IF stack = <<>> THEN Raise("IndexError")
    ELSE Return(stack[Len(stack)])

\* The loop body of an aligner that pops without testing the stack.
AlignLineUnguarded(line, i, indent_stack) ==
    LET stripped == Strip(line)
        current_indent == Len(line) - Len(LStrip(line))
    IN  IF is_complex_function_line(stripped)
        THEN [exc |-> "none",
              stack |-> Append(indent_stack,
                               [indent |-> current_indent,
                                function |-> BeforeParen(stripped),
                                line_num |-> i - 1]),
              line |-> line]
        ELSE IF stripped = <<")">>
        THEN LET popped == Pop(indent_stack)
             IN  IF popped.exc # "none"
                 THEN [exc |-> popped.exc, stack |-> indent_stack, line |-> line]
                 ELSE [exc |-> "none",
                       stack |-> SubSeq(indent_stack, 1, Len(indent_stack) - 1),
                       line |-> Spaces(popped.value.indent) \o <<")">>]
        ELSE [exc |-> "none", stack |-> indent_stack, line |-> line]

\* The loop body of _align_closing_parentheses for lines[i] (i from 1).
AlignLine(line, i, indent_stack) ==
    LET stripped == Strip(line)
        current_indent == Len(line) - Len(LStrip(line))
    IN  IF is_complex_function_line(stripped)
        THEN [exc |-> "none",
              stack |-> Append(indent_stack,
                               [indent |-> current_indent,
                                function |-> BeforeParen(stripped),
                                line_num |-> i - 1]),
              line |-> line]
        ELSE IF stripped = <<")">>
        THEN IF indent_stack # <<>>
             THEN LET popped == Pop(indent_stack)
                  IN  IF popped.exc # "none"
                      THEN [exc |-> popped.exc, stack |-> indent_stack,
                            line |-> line]
                      ELSE [exc |-> "none",
                            stack |-> SubSeq(indent_stack, 1,
                                             Len(indent_stack) - 1),
                            line |-> Spaces(popped.value.indent) \o <<")">>]
             ELSE [exc |-> "none", stack |-> indent_stack, line |-> line]
        ELSE [exc |-> "none", stack |-> indent_stack, line |-> line]

RECURSIVE AlignFrom(_, _, _, _)
AlignFrom(lines, i, indent_stack, result_lines) ==
    IF i > Len(lines) THEN Return(Join(result_lines, "\n"))
    ELSE Let(AlignLine(lines[i], i, indent_stack),
             LAMBDA step :
                 IF step.exc # "none" THEN Raise(step.exc)
                 ELSE AlignFrom(lines, i + 1, step.stack,
                                Append(result_lines, step.line)))

align_closing_parentheses(formatted) ==
    AlignFrom(Split(formatted, "\n"), 1, <<>>, <<>>)

format_dax_simple(expression) ==
    Let(align_closing_parentheses(
            SubCommas(ApplyPatterns(expression, 1), 1)),
        LAMBDA aligned :
            IF aligned.exc # "none" THEN aligned
            ELSE Return(SubBlankLines(aligned.value, 1)))

\* format_dax_expression for a str argument: what it returns or raises.
format_dax_expression(expression) ==
    IF expression = <<>> \/ Strip(expression) = <<>> THEN Return(<<>>)
    ELSE Let(format_dax_simple(clean_dax_expression(expression)),
             LAMBDA formatted :
                 IF formatted.exc # "none" THEN formatted
                 ELSE Return(Strip(formatted.value)))

(***************************************************************************)
(* JSON values: a value is a record of its Python type and its content.    *)
(* A dict's content is a function from its keys, a list's a sequence, a    *)
(* str's a sequence of characters.                                         *)
(***************************************************************************)
JDict(fields) == [type |-> "dict", val |-> fields]

JList(items) == [type |-> "list", val |-> items]

JStr(chars) == [type |-> "str", val |-> chars]

JBool(b) == [type |-> "bool", val |-> b]

JNull == [type |-> "NoneType", val |-> None]

\* The dict without keys.
NoFields == [k \in {} |-> JNull]

\* isinstance(v, dict), isinstance(v, list)
IsDict(v) == v.type = "dict"

IsList(v) == v.type = "list"

\* key in d, for a dict d
Has(d, key) == key \in DOMAIN d.val

\* d.get(key, default), for a dict d
Get(d, key, default) == IF Has(d, key) THEN d.val[key] ELSE default

\* The exception classes and their base classes.
BaseClass ==
    [PBITExtractionError |-> "Exception",
     FileNotFoundError |-> "PBITExtractionError",
     SchemaNotFoundError |-> "PBITExtractionError",
     SchemaParseError |-> "PBITExtractionError",
     ProcessingError |-> "PBITExtractionError",
     BadZipFile |-> "Exception",
     OSError |-> "Exception",
     AttributeError |-> "Exception",
     TypeError |-> "Exception",
     KeyError |-> "Exception",
     IndexError |-> "Exception",
     Exception |-> "BaseException"]

RECURSIVE IsInstance(_, _)
\* isinstance(e, cls), for an exception of class e
IsInstance(e, cls) ==
    \/ e = cls
    \/ e \in DOMAIN BaseClass /\ IsInstance(BaseClass[e], cls)

(***************************************************************************)
(* processor.py                                                            *)
(***************************************************************************)
\* The keys of required_keys that d lacks.
MissingKeys(d, required_keys) == {k \in required_keys : ~Has(d, k)}

\* validate_table_structure: the exception it raises, or "none".
validate_table_structure(table) ==
    IF ~IsDict(table) THEN "ProcessingError"
    ELSE IF MissingKeys(table, {"name"}) # {} THEN "ProcessingError"
    ELSE IF ~IsList(Get(table, "columns", JList(<<>>))) THEN "ProcessingError"
    ELSE IF ~IsList(Get(table, "measures", JList(<<>>))) THEN "ProcessingError"
    ELSE "none"

\* validate_column_structure and validate_measure_structure.
validate_named_structure(entry) ==
    IF ~IsDict(entry) THEN "ProcessingError"
    ELSE IF MissingKeys(entry, {"name"}) # {} THEN "ProcessingError"
    ELSE "none"

validate_relationship_structure(rel) ==
    IF ~IsDict(rel) THEN "ProcessingError"
    ELSE IF MissingKeys(rel, {"fromTable", "fromColumn", "toTable", "toColumn"})
                # {}
    THEN "ProcessingError"
    ELSE "none"

\* The content of a str value, None for null; other values are no strings.
StrOf(v) == IF v.type = "str" THEN v.val ELSE None

safe_get_column_category(data_type, name) ==
    IF name.type \in {"str", "NoneType"}
    THEN get_column_category(StrOf(data_type), StrOf(name))
    ELSE "other"

safe_categorize_measure(name, expression) ==
    IF name.type \in {"str", "NoneType"}
    THEN categorize_measure(StrOf(name), expression)
    ELSE "other"

\* safe_clean_dax, for a str or null expression
safe_clean_dax(expression) == clean_dax_expression(StrOf(expression))

safe_format_dax(expression) ==
    Let(format_dax_expression(expression),
        LAMBDA formatted :
            IF formatted.exc = "none" THEN formatted.value ELSE expression)

\* bool(v) for a bool or null value
Truthy(v) == v.type = "bool" /\ v.val

\* The structure checks at the head of process_schema: the exception that
\* escapes, or "none".
schema_structure_error_no_handler(schema) ==
    IF ~IsDict(schema) THEN "TypeError"
    ELSE IF ~Has(schema, "model") THEN "KeyError"
    ELSE LET model == schema.val["model"]
         IN  IF ~IsDict(model) THEN "ProcessingError"
             ELSE IF MissingKeys(model, {"tables", "relationships"}) # {}
             THEN "ProcessingError"
             ELSE IF ~IsList(model.val["tables"]) THEN "ProcessingError"
             ELSE IF ~IsList(model.val["relationships"]) THEN "ProcessingError"
             ELSE "none"

schema_structure_error(schema) ==
    IF ~IsDict(schema) THEN "TypeError"
    ELSE IF ~Has(schema, "model") THEN "ProcessingError"
    ELSE LET model == schema.val["model"]
         IN  IF ~IsDict(model) THEN "ProcessingError"
             ELSE IF MissingKeys(model, {"tables", "relationships"}) # {}
             THEN "ProcessingError"
             ELSE IF ~IsList(model.val["tables"]) THEN "ProcessingError"
             ELSE IF ~IsList(model.val["relationships"]) THEN "ProcessingError"
             ELSE "none"

\* A column loop body that counts the hidden columns too.
process_column_counting_hidden(col, i, acc) ==
    IF validate_named_structure(col) # "none"
    THEN [acc EXCEPT !.warned = Append(@, [kind |-> "column", index |-> i])]
    ELSE Let([name |-> StrOf(Get(col, "name", JStr(<<>>))),
              data_type |-> StrOf(Get(col, "dataType",
                                      JStr(<<"u","n","k","n","o","w","n">>))),
              is_hidden |-> Truthy(Get(col, "isHidden", JBool(FALSE))),
              source_column |-> StrOf(Get(col, "sourceColumn", JStr(<<>>))),
              format_string |-> StrOf(Get(col, "formatString", JStr(<<>>))),
              category |-> safe_get_column_category(
                  Get(col, "dataType", JStr(<<"u","n","k","n","o","w","n">>)),
                  Get(col, "name", JStr(<<>>)))],
             LAMBDA col_data :
                 [acc EXCEPT !.processed = Append(@, col_data),
                             !.counted = @ + 1])

\* The body of the column loop for column i (from 0): acc holds the
\* processed columns, the number added to total_columns and the warnings.
process_column(col, i, acc) ==
    IF validate_named_structure(col) # "none"
    THEN [acc EXCEPT !.warned = Append(@, [kind |-> "column", index |-> i])]
    ELSE Let([name |-> StrOf(Get(col, "name", JStr(<<>>))),
              data_type |-> StrOf(Get(col, "dataType",
                                      JStr(<<"u","n","k","n","o","w","n">>))),
              is_hidden |-> Truthy(Get(col, "isHidden", JBool(FALSE))),
              source_column |-> StrOf(Get(col, "sourceColumn", JStr(<<>>))),
              format_string |-> StrOf(Get(col, "formatString", JStr(<<>>))),
              category |-> safe_get_column_category(
                  Get(col, "dataType", JStr(<<"u","n","k","n","o","w","n">>)),
                  Get(col, "name", JStr(<<>>)))],
             LAMBDA col_data :
                 [acc EXCEPT !.processed = Append(@, col_data),
                             !.counted = IF col_data.is_hidden
                                         THEN @ ELSE @ + 1])

\* The body of the measure loop for measure i (from 0).
process_measure(measure, i, acc) ==
    IF validate_named_structure(measure) # "none"
    THEN [acc EXCEPT !.warned = Append(@, [kind |-> "measure", index |-> i])]
    ELSE Let(safe_clean_dax(Get(measure, "expression", JStr(<<>>))),
             LAMBDA cleaned_expression :
         Let([name |-> StrOf(Get(measure, "name", JStr(<<>>))),
              expression |-> cleaned_expression,
              formatted_expression |-> safe_format_dax(cleaned_expression),
              format_string |-> StrOf(Get(measure, "formatString", JStr(<<>>))),
              is_hidden |-> Truthy(Get(measure, "isHidden", JBool(FALSE))),
              display_folder |->
                  StrOf(Get(measure, "displayFolder", JStr(<<>>))),
              category |-> safe_categorize_measure(
                  Get(measure, "name", JStr(<<>>)), cleaned_expression)],
             LAMBDA measure_data :
                 [acc EXCEPT !.processed = Append(@, measure_data),
                             !.counted = IF measure_data.is_hidden
                                         THEN @ ELSE @ + 1]))

NoEntries == [processed |-> <<>>, counted |-> 0, warned |-> <<>>]

RECURSIVE ProcessColumns(_, _, _)
\* for i, col in enumerate(columns), from position k on
ProcessColumns(columns, k, acc) ==
    IF k > Len(columns) THEN acc
    ELSE Let(process_column(columns[k], k - 1, acc),
             LAMBDA next : ProcessColumns(columns, k + 1, next))

RECURSIVE ProcessMeasures(_, _, _)
\* for i, measure in enumerate(measures), from position k on
ProcessMeasures(measures, k, acc) ==
    IF k > Len(measures) THEN acc
    ELSE Let(process_measure(measures[k], k - 1, acc),
             LAMBDA next : ProcessMeasures(measures, k + 1, next))

\* The try block of the table loop: the exception that leaves it ("none" when
\* it completes), the processed table, what it added to total_columns and
\* total_measures before it ended, and the warnings of its inner loops.
table_body(table) ==
    LET nothing == [exc |-> "none", table_data |-> Idle, columns |-> 0,
                    measures |-> 0, warned |-> <<>>]
    IN  IF ~IsDict(table) THEN [nothing EXCEPT !.exc = "AttributeError"]
        ELSE IF validate_table_structure(table) # "none"
        THEN [nothing EXCEPT !.exc = validate_table_structure(table)]
        ELSE IF Get(table, "name", JNull).type # "str"
        THEN [nothing EXCEPT !.exc = "AttributeError"]
        ELSE
        Let(ProcessColumns(Get(table, "columns", JList(<<>>)).val, 1, NoEntries),
            LAMBDA cols :
        Let(ProcessMeasures(Get(table, "measures", JList(<<>>)).val, 1,
                            NoEntries),
            LAMBDA meas :
        LET table_name == Get(table, "name", JNull).val
            partitions == Get(table, "partitions", JList(<<>>))
            counted == [nothing EXCEPT !.columns = cols.counted,
                                       !.measures = meas.counted,
                                       !.warned = cols.warned \o meas.warned]
        IN  IF partitions.type \notin {"list", "dict", "str"}
            THEN [counted EXCEPT !.exc = "TypeError"]
            ELSE [counted EXCEPT !.table_data =
                     [name |-> table_name,
                      is_hidden |-> Truthy(Get(table, "isHidden", JBool(FALSE))),
                      is_technical |-> is_technical_table(table_name),
                      columns |-> cols.processed,
                      measures |-> meas.processed,
                      partition_count |-> IF partitions.type = "dict"
                                          THEN Cardinality(DOMAIN partitions.val)
                                          ELSE Len(partitions.val)]]))

\* The handler of the table loop prints table.get('name', 'unknown'): the
\* exception that this raises, or "none".
table_handler(table) == IF IsDict(table) THEN "none" ELSE "AttributeError"

\* The try block of the relationship loop.
relationship_body(rel) ==
    IF validate_relationship_structure(rel) # "none"
    THEN [exc |-> validate_relationship_structure(rel), rel_data |-> Idle]
    ELSE [exc |-> "none",
          rel_data |->
              [name |-> StrOf(Get(rel, "name", JStr(<<>>))),
               from_table |-> StrOf(Get(rel, "fromTable", JStr(<<>>))),
               from_column |-> StrOf(Get(rel, "fromColumn", JStr(<<>>))),
               to_table |-> StrOf(Get(rel, "toTable", JStr(<<>>))),
               to_column |-> StrOf(Get(rel, "toColumn", JStr(<<>>))),
               cardinality |->
                   StrOf(Get(rel, "fromCardinality", JStr(<<"m","a","n","y">>)))
                       \o <<":">>
                       \o StrOf(Get(rel, "toCardinality", JStr(<<"o","n","e">>))),
               cross_filtering |->
                   StrOf(Get(rel, "crossFilteringBehavior",
                             JStr(<<"O","n","e","D","i","r","e","c","t","i","o","n">>))),
               is_active |-> Get(rel, "isActive", JBool(TRUE)).val]]

(***************************************************************************)
(* The categorizer's calls.  Each specification draws one call in its      *)
(* initial state and the action applies the function to it.                *)
(***************************************************************************)
MaxNameWords == 2

MaxExprWords == 2

MaxColumnWords == 2

MaxTableWords == 2

\* The strings made of at most n of the given words.
WordStrings(words, n) == {Concat(ws) : ws \in SeqsUpTo(words, n)}

WithUpper(S) == S \cup {Upper(s) : s \in S}

MeasureNameWords ==
    Range(RevenueWords) \cup Range(CostWords) \cup Range(MarginWords)
        \cup Range(PercentageWords) \cup Range(TemporalWords)
        \cup Range(AggregationNameWords) \cup { <<" ">> }

ExpressionWords ==
    Range(AggregationExprWords) \cup Range(RatioWords)
        \cup Range(CalendarWords) \cup Range(FilteringWords) \cup { <<"x">> }

\* Calls of categorize_measure that vary the name.
MeasureNameCalls ==
    [fn : {"categorize_measure"},
     measure_name : WithUpper(WordStrings(MeasureNameWords, MaxNameWords))
                        \cup {None},
     expression : {None, <<>>, <<"/">>, <<"S","U","M","(","x",")">>,
                   <<"d","a","t","e","a","d","d">>,
                   <<"F","I","L","T","E","R","(","a","l","l",")">>}]

\* Calls of categorize_measure that vary the expression.
MeasureExprCalls ==
    [fn : {"categorize_measure"},
     measure_name : {None, <<>>, <<"x">>, <<"C","o","u","n","t"," ","x">>,
                     <<"t","o","t","a","l">>, <<"S","U","M">>,
                     <<"n","u","m","b","e","r","s">>,
                     <<"Y","T","D"," ","c","o","u","n","t">>,
                     <<"T","o","t","a","l"," ","S","a","l","e","s">>},
     expression : WithUpper(WordStrings(ExpressionWords, MaxExprWords))
                      \cup {None}]

ColumnNameWords ==
    Range(IdentifierWords) \cup Range(TemporalNameWords) \cup Range(MetricWords)
        \cup Range(DescriptiveWords) \cup { <<"x">> }

ColumnCalls ==
    [fn : {"get_column_category"},
     data_type : TemporalTypes \cup NumericTypes
                     \cup {StringType, <<"u","n","k","n","o","w","n">>},
     column_name : WithUpper(WordStrings(ColumnNameWords, MaxColumnWords))
                       \cup {None}]

TableNameWords ==
    Range(technical_patterns)
        \cup { Lower(technical_patterns[1]), Upper(technical_patterns[3]),
               <<"D","a","t","e","T","a","b","l","e">>, <<"_">>, <<"x">>,
               <<"S","a","l","e","s">> }

TableCalls ==
    [fn : {"is_technical_table"},
     table_name : WordStrings(TableNameWords, MaxTableWords)]

\* The call c is about to run.
Awaiting(c) ==
    /\ pc = "call"
    /\ call = c
    /\ result = NoResult
    /\ cleaned_metadata = Idle
    /\ idx = 0
    /\ warnings = <<>>
    /\ last_error = Idle
    /\ context_entries = <<>>
    /\ doc = <<>>
    /\ success_count = 0
    /\ attempted = <<>>
    /\ diff_files = <<>>

PureInit(calls) == \E c \in calls : Awaiting(c)

\* The call returns v.
Returns(v) ==
    /\ pc' = "done"
    /\ result' = Return(v)
    /\ UNCHANGED <<call, cleaned_metadata, idx, warnings, last_error>>
    /\ UNCHANGED written

CategorizeMeasure ==
    /\ pc = "call"
    /\ call.fn = "categorize_measure"
    /\ Returns(categorize_measure(call.measure_name, call.expression))

GetColumnCategory ==
    /\ pc = "call"
    /\ call.fn = "get_column_category"
    /\ Returns(get_column_category(call.data_type, call.column_name))

IsTechnicalTable ==
    /\ pc = "call"
    /\ call.fn = "is_technical_table"
    /\ Returns(is_technical_table(call.table_name))

SpecMeasureName == PureInit(MeasureNameCalls) /\ [][CategorizeMeasure]_vars

SpecMeasureExpr == PureInit(MeasureExprCalls) /\ [][CategorizeMeasure]_vars

SpecColumn == PureInit(ColumnCalls) /\ [][GetColumnCategory]_vars

SpecTechnical == PureInit(TableCalls) /\ [][IsTechnicalTable]_vars

Done(fn) == pc = "done" /\ call.fn = fn

\* C6: in categorize_measure the name decides before the expression: the
\* name rules are tried in the order revenue, cost, margin, percentage,
\* temporal, and the first whose keyword occurs in the lower-cased name gives
\* the category, whatever the expression is.
C6_NamePrecedence ==
    Done("categorize_measure") =>
        LET n == Lower(OrEmpty(call.measure_name))
            rev == ContainsAny(n, RevenueWords)
            cost == ContainsAny(n, CostWords)
            mar == ContainsAny(n, MarginWords)
            per == ContainsAny(n, PercentageWords)
            tem == ContainsAny(n, TemporalWords)
        IN  /\ rev => result = Return("revenue")
            /\ ~rev /\ cost => result = Return("cost")
            /\ ~rev /\ ~cost /\ mar => result = Return("margin")
            /\ ~rev /\ ~cost /\ ~mar /\ per => result = Return("percentage")
            /\ ~rev /\ ~cost /\ ~mar /\ ~per /\ tem
                   => result = Return("temporal")

\* A name with a margin word before a cost word and an expression the ratio
\* rule would match: the result is "cost".
C6_Witness ==
    /\ Done("categorize_measure")
    /\ call.measure_name = <<"M","A","R","G","I","N","C","O","S","T">>
    /\ call.expression = <<"/">>
    /\ result = Return("cost")

NoNameRule(n) ==
    /\ ~ContainsAny(n, RevenueWords)
    /\ ~ContainsAny(n, CostWords)
    /\ ~ContainsAny(n, MarginWords)
    /\ ~ContainsAny(n, PercentageWords)
    /\ ~ContainsAny(n, TemporalWords)

\* C7: when no name rule matches, the category is "aggregation" exactly when
\* the name holds count, total, sum or number and the expression holds sum,
\* count or total; otherwise the expression decides: ratio, then
\* calendar_intelligence, then filtering, else other.
C7_AggregationThenExpression ==
    (Done("categorize_measure")
        /\ NoNameRule(Lower(OrEmpty(call.measure_name)))) =>
        LET n == Lower(OrEmpty(call.measure_name))
            e == Lower(OrEmpty(call.expression))
            agg == /\ \E w \in { <<"c","o","u","n","t">>, <<"t","o","t","a","l">>,
                                 <<"s","u","m">>, <<"n","u","m","b","e","r">> } :
                          Contains(n, w)
                   /\ \E w \in { <<"s","u","m">>, <<"c","o","u","n","t">>,
                                 <<"t","o","t","a","l">> } : Contains(e, w)
            ratio == ContainsAny(e, RatioWords)
            cal == ContainsAny(e, CalendarWords)
            fil == ContainsAny(e, FilteringWords)
        IN  /\ (result = Return("aggregation")) <=> agg
            /\ ~agg /\ ratio => result = Return("ratio")
            /\ ~agg /\ ~ratio /\ cal => result = Return("calendar_intelligence")
            /\ ~agg /\ ~ratio /\ ~cal /\ fil => result = Return("filtering")
            /\ ~agg /\ ~ratio /\ ~cal /\ ~fil => result = Return("other")

\* An aggregation name whose expression holds no aggregation word but a
\* filtering word and then a ratio word: the result is "ratio".
C7_Witness ==
    /\ Done("categorize_measure")
    /\ call.measure_name = <<"n","u","m","b","e","r","s">>
    /\ call.expression = <<"F","I","L","T","E","R","D","I","V","I","D","E">>
    /\ result = Return("ratio")

\* C8: get_column_category looks for the identifier markers id, sk., ck. and
\* key in the lower-cased name before it looks at the data type: a name with
\* a marker is "identifier" for every data type, and only a name without one
\* gets another category.
C8_IdentifierFirst ==
    Done("get_column_category") =>
        LET n == Lower(OrEmpty(call.column_name))
            marked == \E w \in { <<"i","d">>, <<"s","k",".">>, <<"c","k",".">>,
                                 <<"k","e","y">> } : Contains(n, w)
        IN  /\ marked => result = Return("identifier")
            /\ ~marked => result.exc = "none" /\ result.value \in
                   {"temporal", "metric", "numeric", "descriptive",
                    "categorical", "other"}

\* A numeric column whose name holds the metric word cantidad, hence the
\* marker id: it is an identifier.
C8_Witness ==
    /\ Done("get_column_category")
    /\ call.data_type = <<"i","n","t","6","4">>
    /\ call.column_name = <<"c","a","n","t","i","d","a","d">>
    /\ result = Return("identifier")

\* C9: is_technical_table(name) is true exactly when name begins, in the
\* same case, with LocalDateTable_, DateTableTemplate_ or ParameterTable_.
C9_TechnicalPrefix ==
    Done("is_technical_table") =>
        LET name == call.table_name
            begins(p) == /\ Len(name) >= Len(p)
                         /\ \A i \in 1..Len(p) : name[i] = p[i]
        IN  result = Return(
                \/ begins(<<"L","o","c","a","l","D","a","t","e","T","a","b","l","e","_">>)
                \/ begins(<<"D","a","t","e","T","a","b","l","e","T","e","m","p","l","a","t","e","_">>)
                \/ begins(<<"P","a","r","a","m","e","t","e","r","T","a","b","l","e","_">>))

\* A name that holds a technical prefix, but not at its start, is not
\* technical.
C9_Witness ==
    /\ Done("is_technical_table")
    /\ call.table_name = <<"x">> \o technical_patterns[3]
    /\ result = Return(FALSE)

(***************************************************************************)
(* The formatter's calls                                                   *)
(***************************************************************************)
MaxDaxParts == 4

\* The pieces the expressions given to the formatter are made of.
DaxParts ==
    { <<"I","F">>, <<"D","i","v","i","d","e">>, <<"(">>, <<")">>, <<",">>,
      <<" ">>, <<"\n">>, <<"\t">>, <<"a">> }

FormatCalls ==
    [fn : {"format_dax_expression"},
     expression : WordStrings(DaxParts, MaxDaxParts)]

\* format_dax_expression returns or raises.
FormatDaxExpression ==
    /\ pc = "call"
    /\ call.fn = "format_dax_expression"
    /\ pc' = "done"
    /\ result' = format_dax_expression(call.expression)
    /\ UNCHANGED <<call, cleaned_metadata, idx, warnings, last_error>>
    /\ UNCHANGED written

SpecFormat == PureInit(FormatCalls) /\ [][FormatDaxExpression]_vars

\* A Python str: a sequence of characters.
IsString(v) ==
    /\ DOMAIN v = 1..Len(v)
    /\ \A i \in 1..Len(v) :
           v[i] \in Range(UpperCase) \cup Range(LowerCase) \cup Digits
                        \cup {" ", "\t", "\n", "\r", "(", ")", ",", "_"}

\* C1: for every string, with unbalanced or stray parentheses, empty or
\* blank, format_dax_expression returns a string and raises nothing; for an
\* empty or blank string it returns the empty string.
C1_FormatNeverRaises ==
    Done("format_dax_expression") =>
        /\ result.exc = "none"
        /\ IsString(result.value)
        /\ (\A i \in 1..Len(call.expression) : IsSpace(call.expression[i]))
               => result.value = <<>>

\* A closing parenthesis alone on its line that no complex function opened:
\* the stack of the aligner is empty when it is met.
C1_Witness ==
    /\ Done("format_dax_expression")
    /\ call.expression = <<"a", "\n", ")">>
    /\ result = Return(call.expression)

(***************************************************************************)
(* process_schema, one loop iteration at a time                            *)
(***************************************************************************)
SchemaTables == call.schema.val["model"].val["tables"].val

SchemaRelationships == call.schema.val["model"].val["relationships"].val

\* Lines 124-161: the structure checks, then the empty metadata.
ProcessSchemaStart ==
    /\ pc = "call"
    /\ call.fn = "process_schema"
    /\ LET e == schema_structure_error(call.schema)
       IN  IF e # "none"
           THEN /\ pc' = "raised"
                /\ result' = Raise(e)
                /\ UNCHANGED <<cleaned_metadata, idx>>
           ELSE /\ pc' = "tables"
                /\ idx' = 1
                /\ cleaned_metadata' =
                       [compatibility_level |->
                            Get(call.schema, "compatibilityLevel",
                                JStr(<<"u","n","k","n","o","w","n">>)),
                        summary |->
                            [total_tables |-> Len(SchemaTables),
                             business_tables |-> 0,
                             technical_tables |-> 0,
                             total_columns |-> 0,
                             total_measures |-> 0,
                             total_relationships |-> Len(SchemaRelationships)],
                        tables |-> <<>>,
                        relationships |-> <<>>]
                /\ UNCHANGED result
    /\ UNCHANGED <<call, warnings, last_error>>
    /\ UNCHANGED written

\* Lines 164-238: one iteration of the table loop.
ProcessTable ==
    /\ pc = "tables"
    /\ idx <= Len(SchemaTables)
    /\ \E table \in {SchemaTables[idx]} :
       \E body \in {table_body(table)} :
       \E counted \in
               {[cleaned_metadata EXCEPT
                     !.summary.total_columns = @ + body.columns,
                     !.summary.total_measures = @ + body.measures]} :
           IF body.exc = "none"
           THEN /\ cleaned_metadata' =
                       [counted EXCEPT
                            !.tables = Append(@, body.table_data),
                            !.summary.technical_tables =
                                IF body.table_data.is_technical
                                THEN @ + 1 ELSE @,
                            !.summary.business_tables =
                                IF body.table_data.is_technical
                                THEN @ ELSE @ + 1]
                /\ warnings' = warnings \o body.warned
                /\ idx' = idx + 1
                /\ UNCHANGED <<pc, result>>
           ELSE IF table_handler(table) = "none"
           THEN /\ cleaned_metadata' = counted
                /\ warnings' = warnings \o body.warned
                                   \o <<[kind |-> "table", index |-> idx - 1]>>
                /\ idx' = idx + 1
                /\ UNCHANGED <<pc, result>>
           ELSE /\ cleaned_metadata' = counted
                /\ pc' = "raised"
                /\ result' = Raise(table_handler(table))
                /\ UNCHANGED <<warnings, idx>>
    /\ UNCHANGED <<call, last_error>>
    /\ UNCHANGED written

\* The table loop ends and the relationship loop begins.
TablesDone ==
    /\ pc = "tables"
    /\ idx > Len(SchemaTables)
    /\ pc' = "relationships"
    /\ idx' = 1
    /\ UNCHANGED <<call, result, cleaned_metadata, warnings, last_error>>
    /\ UNCHANGED written

\* Lines 241-259: one iteration of the relationship loop.
ProcessRelationship ==
    /\ pc = "relationships"
    /\ idx <= Len(SchemaRelationships)
    /\ \E body \in {relationship_body(SchemaRelationships[idx])} :
           IF body.exc = "none"
           THEN /\ cleaned_metadata' =
                       [cleaned_metadata EXCEPT
                            !.relationships = Append(@, body.rel_data)]
                /\ UNCHANGED warnings
           ELSE /\ warnings' = Append(warnings, [kind |-> "relationship",
                                                 index |-> idx - 1])
                /\ UNCHANGED cleaned_metadata
    /\ idx' = idx + 1
    /\ UNCHANGED <<pc, call, result, last_error>>
    /\ UNCHANGED written

\* Line 261.
ReturnMetadata ==
    /\ pc = "relationships"
    /\ idx > Len(SchemaRelationships)
    /\ pc' = "returned"
    /\ result' = Return(cleaned_metadata)
    /\ UNCHANGED <<call, cleaned_metadata, idx, warnings, last_error>>
    /\ UNCHANGED written

ProcessNext ==
    \/ ProcessSchemaStart
    \/ ProcessTable
    \/ TablesDone
    \/ ProcessRelationship
    \/ ReturnMetadata

(***************************************************************************)
(* The schemas given to process_schema: every schema whose tables,         *)
(* columns, measures and relationships are at most MaxSchemaEntries        *)
(* entries together, and schemas of a wrong structure.                     *)
(***************************************************************************)
MaxSchemaEntries == 4

Int64 == <<"i","n","t","6","4">>

ColumnShapes ==
    { JStr(<<"c">>),
      JDict([dataType |-> JStr(Int64)]),
      JDict([name |-> JStr(<<"A","m","o","u","n","t">>),
             dataType |-> JStr(Int64)]),
      JDict([name |-> JStr(<<"C","u","s","t","o","m","e","r","I","D">>),
             dataType |-> JStr(Int64), isHidden |-> JBool(TRUE)]) }

MeasureShapes ==
    { JNull,
      JDict([expression |-> JStr(<<"1">>)]),
      JDict([name |-> JStr(<<"T","o","t","a","l"," ","S","a","l","e","s">>),
             expression |-> JStr(<<"S","U","M","(","x",")">>)]),
      JDict([name |-> JStr(<<"H","e","l","p","e","r">>),
             expression |-> JStr(<<"I","F","(","a",",","b",")">>),
             isHidden |-> JBool(TRUE)]) }

RelationshipShapes ==
    { JStr(<<"r">>),
      JDict([fromTable |-> JStr(<<"S">>), fromColumn |-> JStr(<<"c">>),
             toTable |-> JStr(<<"T">>)]),
      JDict([fromTable |-> JStr(<<"S">>), fromColumn |-> JStr(<<"c">>),
             toTable |-> JStr(<<"T">>), toColumn |-> JStr(<<"d">>)]) }

TableNames ==
    { <<"S","a","l","e","s">>,
      <<"L","o","c","a","l","D","a","t","e","T","a","b","l","e","_","1">> }

\* A table entry that is no object, one without name, one whose columns are
\* no list.
MalformedTables ==
    { JStr(<<"t">>),
      JDict([columns |-> JList(<<>>)]),
      JDict([name |-> JStr(<<"S","a","l","e","s">>), columns |-> JNull]) }

\* A table with a name; a key whose list is empty is left out.
NamedTable(name, cols, meas) ==
    IF cols = <<>> /\ meas = <<>> THEN JDict([name |-> JStr(name)])
    ELSE IF meas = <<>>
    THEN JDict([name |-> JStr(name), columns |-> JList(cols)])
    ELSE IF cols = <<>>
    THEN JDict([name |-> JStr(name), measures |-> JList(meas)])
    ELSE JDict([name |-> JStr(name), columns |-> JList(cols),
                measures |-> JList(meas)])

\* The tables of c entries: the table and its columns and measures.
TablesOfCost(c) ==
    (IF c = 1 THEN MalformedTables ELSE {})
        \cup { NamedTable(n, p[1], p[2]) :
                 n \in TableNames,
                 p \in UNION { [1..i -> ColumnShapes]
                                   \X [1..(c - 1 - i) -> MeasureShapes] :
                               i \in 0..(c - 1) } }

RECURSIVE TableLists(_)
\* The lists of tables of at most b entries.
TableLists(b) ==
    { <<>> } \cup
        UNION { { <<t>> \o rest : t \in TablesOfCost(c),
                                  rest \in TableLists(b - c) } : c \in 1..b }

SchemaOf(tables, relationships) ==
    JDict([model |-> JDict([tables |-> JList(tables),
                            relationships |-> JList(relationships)])])

\* Schemas of a wrong structure.
WrongSchemas ==
    { JList(<<>>),
      JDict(NoFields),
      JDict([compatibilityLevel |-> JStr(<<"1">>)]),
      JDict([model |-> JNull]),
      JDict([model |-> JList(<<>>)]),
      JDict([model |-> JDict(NoFields)]),
      JDict([model |-> JDict([tables |-> JList(<<>>)])]),
      JDict([model |-> JDict([relationships |-> JList(<<>>)])]),
      JDict([model |-> JDict([tables |-> JDict(NoFields),
                              relationships |-> JList(<<>>)])]),
      JDict([model |-> JDict([tables |-> JList(<<>>),
                              relationships |-> JNull])]),
      JDict([model |-> JDict([tables |-> JNull, relationships |-> JNull])]) }

\* process_schema is called with a schema of a wrong structure, or with one
\* of at most MaxSchemaEntries entries.
InitProcess ==
    \/ \E s \in WrongSchemas :
           Awaiting([fn |-> "process_schema", schema |-> s])
    \/ \E r \in 0..MaxSchemaEntries :
       \E ts \in TableLists(MaxSchemaEntries - r) :
       \E rs \in [1..r -> RelationshipShapes] :
           Awaiting([fn |-> "process_schema", schema |-> SchemaOf(ts, rs)])

SpecProcess == InitProcess /\ [][ProcessNext]_vars

(***************************************************************************)
(* Claims about process_schema                                             *)
(***************************************************************************)
\* The entries of a schema whose model holds a list of tables and a list of
\* relationships.
TablesOf(schema) == schema.val["model"].val["tables"].val

RelationshipsOf(schema) == schema.val["model"].val["relationships"].val

ColumnsOf(table) == Get(table, "columns", JList(<<>>)).val

MeasuresOf(table) == Get(table, "measures", JList(<<>>)).val

\* The table, its columns and its measures are objects that hold their
\* required keys.
WellFormedTable(table) ==
    /\ validate_table_structure(table) = "none"
    /\ \A i \in DOMAIN ColumnsOf(table) :
           validate_named_structure(ColumnsOf(table)[i]) = "none"
    /\ \A i \in DOMAIN MeasuresOf(table) :
           validate_named_structure(MeasuresOf(table)[i]) = "none"

\* The positions of the entries that satisfy P.
Positions(entries, P(_)) == {i \in DOMAIN entries : P(entries[i])}

\* The subsequence of the entries that satisfy P.
Select(entries, P(_)) == SelectSeq(entries, P)

WellFormedRelationship(rel) == validate_relationship_structure(rel) = "none"

\* The names of processed entries, as the output holds them.
NamesOf(processed) == [i \in DOMAIN processed |-> processed[i].name]

\* The names of the entries of the schema that are objects with a name.
NamesOfValid(entries) ==
    LET valid == Select(entries, LAMBDA e : validate_named_structure(e) = "none")
    IN  [i \in DOMAIN valid |-> StrOf(Get(valid[i], "name", JNull))]

\* The tables that are objects with a name and lists of columns and measures.
ValidTables(schema) ==
    Select(TablesOf(schema), LAMBDA t : validate_table_structure(t) = "none")

\* C2: given a schema whose model has list-valued tables and relationships,
\* process_schema returns normally whatever entries are malformed, and the
\* output holds every well-formed table with its well-formed columns and
\* measures, and every well-formed relationship.
C2_MalformedEntriesSkipped ==
    (call.fn = "process_schema" /\ schema_structure_error(call.schema) = "none")
        => /\ pc # "raised"
           /\ pc = "returned" =>
                /\ result.exc = "none"
                /\ NamesOf(result.value.tables) =
                       NamesOfValid(ValidTables(call.schema))
                /\ \A i \in DOMAIN result.value.tables :
                       /\ NamesOf(result.value.tables[i].columns) =
                              NamesOfValid(ColumnsOf(ValidTables(call.schema)[i]))
                       /\ NamesOf(result.value.tables[i].measures) =
                              NamesOfValid(MeasuresOf(ValidTables(call.schema)[i]))
                /\ Len(result.value.relationships) =
                       Cardinality(Positions(RelationshipsOf(call.schema),
                                             WellFormedRelationship))

\* The handler of a table entry that is no object raises AttributeError,
\* which leaves process_schema.
C2_Witness ==
    /\ call.fn = "process_schema"
    /\ schema_structure_error(call.schema) = "none"
    /\ pc = "raised"
    /\ result = Raise("AttributeError")
    /\ ~IsDict(TablesOf(call.schema)[idx])

\* The structure of an object schema is wrong: it has no model key, the
\* model is no object, tables or relationships is missing from the model, or
\* one of them is no list.
WrongStructure(schema) ==
    \/ ~Has(schema, "model")
    \/ ~IsDict(schema.val["model"])
    \/ ~Has(schema.val["model"], "tables")
    \/ ~Has(schema.val["model"], "relationships")
    \/ ~IsList(schema.val["model"].val["tables"])
    \/ ~IsList(schema.val["model"].val["relationships"])

\* C3: for an object schema of a wrong structure, process_schema raises
\* ProcessingError and no other exception, before it processes any entry.
C3_WrongStructureRaisesProcessingError ==
    (/\ call.fn = "process_schema"
     /\ IsDict(call.schema)
     /\ WrongStructure(call.schema)
     /\ pc # "call")
        => /\ pc = "raised"
           /\ result = Raise("ProcessingError")
           /\ IsInstance(result.exc, "ProcessingError")
           /\ warnings = <<>>

\* A model whose tables are an object instead of a list raises
\* ProcessingError.
C3_Witness ==
    /\ call.fn = "process_schema"
    /\ call.schema = JDict([model |-> JDict([tables |-> JDict(NoFields),
                                             relationships |-> JList(<<>>)])])
    /\ pc = "raised"
    /\ result = Raise("ProcessingError")

\* Every table, column, measure and relationship of the schema is well-formed.
WellFormedSchema(schema) ==
    /\ IsDict(schema)
    /\ ~WrongStructure(schema)
    /\ \A i \in DOMAIN TablesOf(schema) : WellFormedTable(TablesOf(schema)[i])
    /\ \A i \in DOMAIN RelationshipsOf(schema) :
           WellFormedRelationship(RelationshipsOf(schema)[i])

\* isHidden of the entry is false (or absent).
Visible(entry) == ~Truthy(Get(entry, "isHidden", JBool(FALSE)))

HasTechnicalPrefix(table) ==
    \E k \in DOMAIN technical_patterns :
        StartsWith(StrOf(Get(table, "name", JNull)), technical_patterns[k])

RECURSIVE VisibleColumns(_)
\* The number of columns with isHidden false over the tables.
VisibleColumns(tables) ==
    IF tables = <<>> THEN 0
    ELSE Cardinality(Positions(ColumnsOf(Head(tables)), Visible))
             + VisibleColumns(Tail(tables))

RECURSIVE VisibleMeasures(_)
\* The number of measures with isHidden false over the tables.
VisibleMeasures(tables) ==
    IF tables = <<>> THEN 0
    ELSE Cardinality(Positions(MeasuresOf(Head(tables)), Visible))
             + VisibleMeasures(Tail(tables))

\* C4: for a schema whose entries are all well-formed, process_schema returns
\* and the summary counts the tables, the tables with and without a technical
\* prefix, the visible columns, the visible measures and the relationships.
C4_SummaryCounts ==
    (call.fn = "process_schema" /\ WellFormedSchema(call.schema))
        => /\ pc # "raised"
           /\ pc = "returned" =>
                LET tables == TablesOf(call.schema)
                    technical == Cardinality(Positions(tables,
                                                       HasTechnicalPrefix))
                IN  /\ result.exc = "none"
                    /\ result.value.summary =
                           [total_tables |-> Len(tables),
                            technical_tables |-> technical,
                            business_tables |-> Len(tables) - technical,
                            total_columns |-> VisibleColumns(tables),
                            total_measures |-> VisibleMeasures(tables),
                            total_relationships |->
                                Len(RelationshipsOf(call.schema))]

\* A technical table and a business table with a visible and a hidden column:
\* two tables, one of each kind, and one column counted.
C4_Witness ==
    /\ call.fn = "process_schema"
    /\ pc = "returned"
    /\ WellFormedSchema(call.schema)
    /\ Len(TablesOf(call.schema)) = 2
    /\ HasTechnicalPrefix(TablesOf(call.schema)[1])
    /\ Len(ColumnsOf(TablesOf(call.schema)[2])) = 2
    /\ result.value.summary.technical_tables = 1
    /\ result.value.summary.business_tables = 1
    /\ result.value.summary.total_columns = 1

(***************************************************************************)
(* extractor.py: parse_datamodel_schema.  The input file is what the file  *)
(* system and the archive answer during the call: the outcome of stat on   *)
(* the path, the suffix, the size, the outcome of opening the archive, and *)
(* the archive's entries, each with a name and what reading, decoding and  *)
(* parsing its content yield.  The file does not change during the call.   *)
(***************************************************************************)
\* Path.exists at line 37: False for a path that is not there, and the
\* OSError of stat for a path that cannot be examined (a name that is too
\* long, a directory that may not be searched).
validate_input_file(file) ==
    IF file.stat = "OSError" THEN "OSError"
    ELSE IF file.stat = "missing" THEN "FileNotFoundError"
    ELSE IF file.stat # "file" THEN "FileNotFoundError"
    ELSE IF Lower(file.suffix) \notin { <<".","p","b","i","t">> }
    THEN "FileNotFoundError"
    ELSE IF file.size = 0 THEN "FileNotFoundError"
    ELSE "none"

model_keys ==
    << <<"D","a","t","a","M","o","d","e","l","S","c","h","e","m","a">>,
       <<"D","a","t","a","M","o","d","e","l">>,
       <<"m","o","d","e","l",".","j","s","o","n">> >>

\* any(key in f for key in [...])
IsModelFile(f) == ContainsAny(f, model_keys)

\* validate_zip_structure: the exception it raises ("none" when it returns)
\* and the model files it returns.
validate_zip_structure(files) ==
    IF files = <<>>
    THEN [exc |-> "SchemaNotFoundError", model_files |-> <<>>]
    ELSE IF SelectSeq(files, IsModelFile) = <<>>
    THEN [exc |-> "SchemaNotFoundError", model_files |-> <<>>]
    ELSE [exc |-> "none", model_files |-> SelectSeq(files, IsModelFile)]

encodings == <<"utf-8", "utf-16", "latin-1">>

\* The first encoding, from position k on, that decodes the content; "none"
\* when the loop ends without one.
RECURSIVE FirstEncoding(_, _)
FirstEncoding(content, k) ==
    IF k > Len(encodings) THEN "none"
    ELSE IF encodings[k] \in content.decodes THEN encodings[k]
    ELSE FirstEncoding(content, k + 1)

\* parse_json_with_fallback: json.loads of the decoded text, then of the
\* cleaned text.
parse_json_with_fallback(content) ==
    IF FirstEncoding(content, 1) = "none" THEN Raise("SchemaParseError")
    ELSE IF content.raw_parses THEN Return(content.value)
    ELSE IF content.cleaned_parses THEN Return(content.value)
    ELSE Raise("SchemaParseError")

\* validate_schema_structure: the exception it raises, or "none".
validate_schema_structure(schema) ==
    IF ~IsDict(schema) THEN "SchemaParseError"
    ELSE IF ~Has(schema, "model") THEN "SchemaParseError"
    ELSE IF ~IsDict(schema.val["model"]) THEN "SchemaParseError"
    ELSE IF MissingKeys(schema.val["model"], {"tables", "relationships"}) # {}
    THEN "SchemaParseError"
    ELSE IF ~IsList(schema.val["model"].val["tables"]) THEN "SchemaParseError"
    ELSE IF ~IsList(schema.val["model"].val["relationships"])
    THEN "SchemaParseError"
    ELSE "none"

\* Lines 174-177 without the call of validate_schema_structure.
candidate_body_unvalidated(content) ==
    IF content.read # "none" THEN Raise(content.read)
    ELSE parse_json_with_fallback(content)

\* The try block of the candidate loop, lines 174-177.
candidate_body(content) ==
    IF content.read # "none" THEN Raise(content.read)
    ELSE Let(parse_json_with_fallback(content),
             LAMBDA parsed :
                 IF parsed.exc # "none" THEN parsed
                 ELSE IF validate_schema_structure(parsed.value) # "none"
                 THEN Raise(validate_schema_structure(parsed.value))
                 ELSE Return(parsed.value))

\* The handlers of lines 190-195: the exception that leaves the function
\* when e leaves the try block.
outer_handler(e) ==
    IF IsInstance(e, "BadZipFile") THEN "FileNotFoundError"
    ELSE IF IsInstance(e, "PBITExtractionError") THEN e
    ELSE "PBITExtractionError"

\* The names and the candidates of the archive.
FileNames == [i \in DOMAIN call.file.entries |-> call.file.entries[i].name]

ModelEntries ==
    SelectSeq(call.file.entries, LAMBDA entry : IsModelFile(entry.name))

\* Line 165.
ValidateInputFile ==
    /\ pc = "call"
    /\ call.fn = "parse_datamodel_schema"
    /\ IF validate_input_file(call.file) # "none"
       THEN /\ pc' = "raised"
            /\ result' = Raise(validate_input_file(call.file))
       ELSE /\ pc' = "open"
            /\ UNCHANGED result
    /\ UNCHANGED <<call, cleaned_metadata, idx, warnings, last_error>>
    /\ UNCHANGED written

\* Lines 167-172: the archive is opened and its structure validated.
OpenArchive ==
    /\ pc = "open"
    /\ IF call.file.open # "none"
       THEN /\ pc' = "raised"
            /\ result' = Raise(outer_handler(call.file.open))
            /\ UNCHANGED <<idx, last_error>>
       ELSE IF validate_zip_structure(FileNames).exc # "none"
       THEN /\ pc' = "raised"
            /\ result' =
                   Raise(outer_handler(validate_zip_structure(FileNames).exc))
            /\ UNCHANGED <<idx, last_error>>
       ELSE /\ pc' = "candidates"
            /\ idx' = 1
            /\ last_error' = "None"
            /\ UNCHANGED result
    /\ UNCHANGED <<call, cleaned_metadata, warnings>>
    /\ UNCHANGED written

\* zip_ref.read(name): the content of the entry of that name, the last one
\* when several entries have it.
ZipRead(name) ==
    call.file.entries[
        CHOOSE i \in DOMAIN call.file.entries :
            /\ call.file.entries[i].name = name
            /\ \A j \in DOMAIN call.file.entries :
                   call.file.entries[j].name = name => j <= i].content

\* Lines 173-180: one iteration of the candidate loop.
TryCandidate ==
    /\ pc = "candidates"
    /\ idx <= Len(ModelEntries)
    /\ attempted' = Append(attempted, ModelEntries[idx].name)
    /\ \E body \in {candidate_body(ZipRead(ModelEntries[idx].name))} :
           IF body.exc = "none"
           THEN /\ pc' = "returned"
                /\ result' = body
                /\ UNCHANGED <<idx, last_error>>
           ELSE /\ last_error' = body.exc
                /\ idx' = idx + 1
                /\ UNCHANGED <<pc, result>>
    /\ UNCHANGED <<call, cleaned_metadata, warnings, context_entries, doc,
                   success_count, diff_files>>

\* Lines 183-187: no candidate could be parsed.
NoCandidateParsed ==
    /\ pc = "candidates"
    /\ idx > Len(ModelEntries)
    /\ pc' = "raised"
    /\ result' = Raise(outer_handler("SchemaParseError"))
    /\ UNCHANGED <<call, cleaned_metadata, idx, warnings, last_error>>
    /\ UNCHANGED written

ExtractNext ==
    \/ ValidateInputFile
    \/ OpenArchive
    \/ TryCandidate
    \/ NoCandidateParsed

(***************************************************************************)
(* The input files: the files that validate_input_file or the opening of   *)
(* the archive refuse, and the archives of at most MaxArchiveEntries       *)
(* entries.                                                                *)
(***************************************************************************)
MaxArchiveEntries == 2

EntryNames ==
    { <<"D","a","t","a","M","o","d","e","l","S","c","h","e","m","a">>,
      <<"R","e","p","o","r","t","/","L","a","y","o","u","t">>,
      <<"x","/","m","o","d","e","l",".","j","s","o","n">>,
      <<"d","a","t","a","m","o","d","e","l","s","c","h","e","m","a">> }

\* The content of an entry: what reading it raises, the encodings that
\* decode it (latin-1 decodes every content), whether json.loads accepts the
\* text and the cleaned text, and the value of the text.
Content(read, decodes, raw, cleaned, value) ==
    [read |-> read, decodes |-> decodes, raw_parses |-> raw,
     cleaned_parses |-> cleaned, value |-> value]

AllEncodings == {"utf-8", "utf-16", "latin-1"}

EntryContents ==
    { Content("BadZipFile", AllEncodings, TRUE, TRUE, SchemaOf(<<>>, <<>>)),
      Content("none", {"utf-8", "latin-1"}, FALSE, FALSE, JNull),
      Content("none", {"latin-1"}, FALSE, FALSE, JNull),
      Content("none", {"utf-16", "latin-1"}, TRUE, TRUE, SchemaOf(<<>>, <<>>)),
      Content("none", {"utf-8", "latin-1"}, FALSE, TRUE, SchemaOf(<<>>, <<>>)),
      Content("none", {"utf-8", "latin-1"}, TRUE, TRUE, JList(<<>>)),
      Content("none", {"utf-8", "latin-1"}, TRUE, TRUE, JDict(NoFields)),
      Content("none", {"utf-8", "latin-1"}, TRUE, TRUE,
              JDict([model |-> JDict([tables |-> JList(<<>>)])])),
      Content("none", {"utf-8", "latin-1"}, TRUE, TRUE,
              JDict([model |-> JDict([tables |-> JList(<<>>),
                                      relationships |-> JNull])])),
      Content("none", {"utf-8", "latin-1"}, TRUE, TRUE,
              SchemaOf(<<JDict([name |-> JStr(<<"S","a","l","e","s">>)])>>,
                       <<>>)) }

File(stat, suffix, size, open, entries) ==
    [stat |-> stat, suffix |-> suffix, size |-> size, open |-> open,
     entries |-> entries]

\* A path that is not there, one that cannot be examined, a directory, a
\* file of another suffix, an empty file, a file that is no archive, and an
\* archive that cannot be read.
RefusedFiles ==
    { File("missing", <<".","p","b","i","t">>, 0, "none", <<>>),
      File("OSError", <<".","p","b","i","t">>, 0, "none", <<>>),
      File("directory", <<".","p","b","i","t">>, 1, "none", <<>>),
      File("file", <<".","z","i","p">>, 1, "none", <<>>),
      File("file", <<>>, 1, "none", <<>>),
      File("file", <<".","p","b","i","t">>, 0, "none", <<>>),
      File("file", <<".","p","b","i","t">>, 1, "BadZipFile", <<>>),
      File("file", <<".","P","B","I","T">>, 1, "BadZipFile", <<>>),
      File("file", <<".","p","b","i","t">>, 1, "OSError", <<>>) }

InitExtract ==
    \/ \E file \in RefusedFiles :
           Awaiting([fn |-> "parse_datamodel_schema", file |-> file])
    \/ \E n \in 0..MaxArchiveEntries :
       \E entries \in [1..n -> [name : EntryNames, content : EntryContents]] :
       \E suffix \in { <<".","p","b","i","t">>, <<".","P","B","I","T">> } :
           Awaiting([fn |-> "parse_datamodel_schema",
                     file |-> File("file", suffix, 1, "none", entries)])

SpecExtract == InitExtract /\ [][ExtractNext]_vars

\* The input is missing, no file, of another suffix, empty or no archive.
InvalidInput(file) ==
    \/ file.stat # "file"
    \/ Lower(file.suffix) # <<".","p","b","i","t">>
    \/ file.size = 0
    \/ file.open = "BadZipFile"

\* C5: every exception that escapes parse_datamodel_schema is a
\* PBITExtractionError: FileNotFoundError for a missing, non-file,
\* wrong-suffix, empty or non-zip input, SchemaNotFoundError for an archive
\* without an entry of a model name, SchemaParseError for an archive whose
\* candidates all fail, and PBITExtractionError itself for any other failure
\* while the archive is read.
C5_EscapingExceptions ==
    (call.fn = "parse_datamodel_schema" /\ pc = "raised")
        => /\ IsInstance(result.exc, "PBITExtractionError")
           /\ IF InvalidInput(call.file)
              THEN result.exc = "FileNotFoundError"
              ELSE IF call.file.open # "none"
              THEN result.exc = "PBITExtractionError"
              ELSE IF ModelEntries = <<>>
              THEN result.exc = "SchemaNotFoundError"
              ELSE result.exc = "SchemaParseError"

\* C5, for the paths that stat can examine: the exceptions that escape are
\* those the claim names.
C5_WhenPathCanBeExamined ==
    (call.fn = "parse_datamodel_schema" /\ call.file.stat # "OSError")
        => C5_EscapingExceptions

\* parse_datamodel_schema ends with the OSError of the path's stat.
C5_Witness ==
    /\ call.fn = "parse_datamodel_schema"
    /\ call.file.stat = "OSError"
    /\ pc = "raised"
    /\ result = Raise("OSError")

(***************************************************************************)
(* i18n.py: get_translation.  Languages, keys and texts are strings; the   *)
(* default is a text or None.                                              *)
(***************************************************************************)
TRANSLATIONS ==
    [en |->
         [power_bi_data_model |-> "Power BI Data Model",
          generated |-> "Generated",
          model_summary |-> "Model Summary",
          business_tables |-> "Business Tables",
          total_columns |-> "Total Columns",
          total_measures |-> "Total Measures",
          relationships |-> "Relationships",
          tables_and_measures |-> "Tables and Measures",
          hidden_table_measures_only |-> "Hidden Table - Measures Only",
          columns |-> "Columns",
          column |-> "Column",
          type |-> "Type",
          category |-> "Category",
          measures |-> "Measures",
          from |-> "From",
          to |-> "To",
          direction |-> "Direction",
          ai_agent_usage_guide |-> "AI Agent Usage Guide",
          usage_guide_description |-> "This document describes a Power BI data model. You can use this information to:",
          usage_guide_1 |-> "Answer business questions about available data",
          usage_guide_2 |-> "Suggest which measures to use for specific analyses",
          usage_guide_3 |-> "Explain relationships between tables",
          usage_guide_4 |-> "Help users understand the data structure",
          key_measures_available |-> "Key Measures Available:",
          folder |-> "Folder",
          format |-> "Format",
          complexity_simple |-> "simple",
          complexity_medium |-> "medium",
          complexity_complex |-> "complex",
          category_revenue |-> "Revenue Measures",
          category_cost |-> "Cost Measures",
          category_margin |-> "Margin Measures",
          category_percentage |-> "Percentage Measures",
          category_ratio |-> "Ratio Measures",
          category_temporal |-> "Time-based Measures",
          category_calendar_intelligence |-> "Calendar Intelligence",
          category_aggregation |-> "Aggregation Measures",
          category_filtering |-> "Filtering Measures",
          category_other |-> "Other Measures",
          agent_usage_note_1 |-> "This context contains Power BI model metadata for AI analysis",
          agent_usage_note_2 |-> "Measures are ordered by business importance",
          agent_usage_note_3 |-> "DAX expressions are formatted for better readability",
          agent_usage_note_4 |-> "The 'complexity' field indicates the complexity of each measure",
          agent_usage_note_5 |-> "Temporal columns are useful for trend analysis",
          agent_usage_note_6 |-> "Use relationships to understand the model structure",
          sample_question_1 |-> "What are the main measures in this model?",
          sample_question_2 |-> "What tables are related to sales?",
          sample_question_3 |-> "How is profit margin calculated?",
          sample_question_4 |-> "What temporal columns are available?",
          sample_question_5 |-> "What are the relationships between tables?",
          sample_question_6 |-> "Which measures are more complex to understand?",
          sample_question_7 |-> "How can I use revenue measures in my analysis?"],
     es |->
         [power_bi_data_model |-> "Modelo de Datos de Power BI",
          generated |-> "Generado",
          model_summary |-> "Resumen del Modelo",
          business_tables |-> "Tablas de Negocio",
          total_columns |-> "Total de Columnas",
          total_measures |-> "Total de Medidas",
          relationships |-> "Relaciones",
          tables_and_measures |-> "Tablas y Medidas",
          hidden_table_measures_only |-> "Tabla Oculta - Solo Medidas",
          columns |-> "Columnas",
          column |-> "Columna",
          type |-> "Tipo",
          category |-> "Categoría",
          measures |-> "Medidas",
          from |-> "Desde",
          to |-> "Hacia",
          direction |-> "Dirección",
          ai_agent_usage_guide |-> "Guía de Uso para Agentes de IA",
          usage_guide_description |-> "Este documento describe un modelo de datos de Power BI. Puedes usar esta información para:",
          usage_guide_1 |-> "Responder preguntas de negocio sobre los datos disponibles",
          usage_guide_2 |-> "Sugerir qué medidas usar para análisis específicos",
          usage_guide_3 |-> "Explicar las relaciones entre tablas",
          usage_guide_4 |-> "Ayudar a los usuarios a entender la estructura de datos",
          key_measures_available |-> "Medidas Clave Disponibles:",
          folder |-> "Carpeta",
          format |-> "Formato",
          complexity_simple |-> "simple",
          complexity_medium |-> "medio",
          complexity_complex |-> "complejo",
          category_revenue |-> "Medidas de Ingresos",
          category_cost |-> "Medidas de Costos",
          category_margin |-> "Medidas de Margen",
          category_percentage |-> "Medidas de Porcentaje",
          category_ratio |-> "Medidas de Razón",
          category_temporal |-> "Medidas Temporales",
          category_calendar_intelligence |-> "Inteligencia de Calendario",
          category_aggregation |-> "Medidas de Agregación",
          category_filtering |-> "Medidas de Filtrado",
          category_other |-> "Otras Medidas",
          agent_usage_note_1 |-> "Este contexto contiene metadatos del modelo de Power BI para análisis con IA",
          agent_usage_note_2 |-> "Las medidas están ordenadas por importancia de negocio",
          agent_usage_note_3 |-> "Las expresiones DAX están formateadas para mejor legibilidad",
          agent_usage_note_4 |-> "El campo 'complexity' indica la complejidad de cada medida",
          agent_usage_note_5 |-> "Las columnas temporales son útiles para análisis de tendencias",
          agent_usage_note_6 |-> "Usa las relaciones para entender la estructura del modelo",
          sample_question_1 |-> "¿Cuáles son las principales medidas en este modelo?",
          sample_question_2 |-> "¿Qué tablas están relacionadas con ventas?",
          sample_question_3 |-> "¿Cómo se calcula el margen de ganancia?",
          sample_question_4 |-> "¿Qué columnas temporales están disponibles?",
          sample_question_5 |-> "¿Cuáles son las relaciones entre tablas?",
          sample_question_6 |-> "¿Qué medidas son más complejas de entender?",
          sample_question_7 |-> "¿Cómo puedo usar las medidas de ingresos en mi análisis?"]]

Text(s) == [type |-> "str", val |-> s]

NoText == [type |-> "NoneType", val |-> ""]

\* default or key
DefaultOrKey(default, key) ==
    IF default.type = "NoneType" \/ default.val = "" THEN key ELSE default.val

\* d.get(key, default), for a dict d of strings
GetText(d, key, default) == IF key \in DOMAIN d THEN d[key] ELSE default

\* get_translation without the fallback of lines 147-148.
get_translation_no_fallback(lang, key, default) ==
    GetText(IF lang \in DOMAIN TRANSLATIONS THEN TRANSLATIONS[lang]
            ELSE [k \in {} |-> ""],
            key, DefaultOrKey(default, key))

\* get_translation that passes default, not default or key, at line 150.
get_translation_default_only(lang, key, default) ==
    GetText(TRANSLATIONS[IF lang \notin DOMAIN TRANSLATIONS THEN "en" ELSE lang],
            key, default.val)

get_translation(lang, key, default) ==
    LET language == IF lang \notin DOMAIN TRANSLATIONS THEN "en" ELSE lang
    IN  GetText(IF language \in DOMAIN TRANSLATIONS THEN TRANSLATIONS[language]
                ELSE [k \in {} |-> ""],
                key, DefaultOrKey(default, key))

Languages == {"en", "es", "EN", "fr", "invalid", "english", ""}

TranslationKeys ==
    DOMAIN TRANSLATIONS["en"] \cup DOMAIN TRANSLATIONS["es"]
        \cup {"nonexistent_key", ""}

Defaults == {NoText, Text(""), Text("Fallback text")}

TranslationCalls ==
    [fn : {"get_translation"}, lang : Languages, key : TranslationKeys,
     default : Defaults]

GetTranslation ==
    /\ pc = "call"
    /\ call.fn = "get_translation"
    /\ Returns(get_translation(call.lang, call.key, call.default))

SpecTranslation == PureInit(TranslationCalls) /\ [][GetTranslation]_vars

\* C10: for a language that is no key of TRANSLATIONS, get_translation
\* returns what it returns for "en" with the same key: the English text of a
\* key that English translates, and for other keys the default, or the key.
C10_InvalidLanguageFallsBack ==
    (Done("get_translation") /\ call.lang \notin DOMAIN TRANSLATIONS)
        => /\ result.exc = "none"
           /\ result.value = get_translation("en", call.key, call.default)
           /\ call.key \in DOMAIN TRANSLATIONS["en"]
                  => result.value = TRANSLATIONS["en"][call.key]
           /\ call.key \notin DOMAIN TRANSLATIONS["en"]
                  => result.value = DefaultOrKey(call.default, call.key)

\* get_translation("invalid", "power_bi_data_model") is the English text.
C10_Witness ==
    /\ Done("get_translation")
    /\ call.lang = "invalid"
    /\ call.key = "power_bi_data_model"
    /\ call.default = NoText
    /\ result = Return("Power BI Data Model")

\* The language whose table get_translation reads.
SelectedLanguage(lang) == IF lang \in DOMAIN TRANSLATIONS THEN lang ELSE "en"

\* C11: for a key that the table of the selected language does not hold,
\* get_translation raises nothing and returns the key when the default is
\* None or empty, and the default otherwise.
C11_MissingKey ==
    (/\ Done("get_translation")
     /\ call.key \notin DOMAIN TRANSLATIONS[SelectedLanguage(call.lang)])
        => /\ result.exc = "none"
           /\ call.default \in {NoText, Text("")} => result.value = call.key
           /\ call.default \notin {NoText, Text("")}
                  => result.value = call.default.val

\* get_translation("en", "nonexistent_key") is the key.
C11_Witness ==
    /\ Done("get_translation")
    /\ call.lang = "en"
    /\ call.key = "nonexistent_key"
    /\ call.default = NoText
    /\ result = Return("nonexistent_key")

(***************************************************************************)
(* formatters.py: format_dax_for_json and the complexity score             *)
(***************************************************************************)
RECURSIVE Replace(_, _, _)
\* s.replace(c, by), c one character
Replace(s, c, by) ==
    IF s = <<>> THEN <<>>
    ELSE (IF Head(s) = c THEN by ELSE <<Head(s)>>) \o Replace(Tail(s), c, by)

\* format_dax_for_json: what it returns or raises.
format_dax_for_json(expression) ==
    Let(format_dax_expression(expression),
        LAMBDA formatted :
            IF formatted.exc # "none" THEN formatted
            ELSE Return(Replace(Replace(Replace(Replace(formatted.value,
                            "\\", <<"\\", "\\">>),
                            "\"", <<"\\", "\"">>),
                            "\n", <<"\\", "n">>),
                            "\t", <<"\\", "t">>)))

RECURSIVE Count(_, _, _)
\* s.count(w), from index i on: the occurrences that do not overlap
Count(s, w, i) ==
    IF i + Len(w) - 1 > Len(s) THEN 0
    ELSE IF SubSeq(s, i, i + Len(w) - 1) = w THEN 1 + Count(s, w, i + Len(w))
    ELSE Count(s, w, i + 1)

score_functions ==
    << <<"I","F">>, <<"S","W","I","T","C","H">>, <<"C","A","L","C","U","L","A","T","E">>, <<"F","I","L","T","E","R">>, <<"A","L","L">>, <<"V","A","L","U","E","S">> >>

score_operators == << <<"+">>, <<"-">>, <<"*">>, <<"/">>, <<"=">>, <<"<">>, <<">">>, <<"!">> >>

RECURSIVE SumSeq(_)
\* sum(numbers)
SumSeq(numbers) ==
    IF numbers = <<>> THEN 0 ELSE Head(numbers) + SumSeq(Tail(numbers))

\* The sum of F(w) over the words.
SumOver(words, F(_)) == SumSeq([k \in DOMAIN words |-> F(words[k])])

RECURSIVE MaxNesting(_, _, _, _)
\* The loop of lines 323-328 from index i on.
MaxNesting(s, i, current_nesting, max_nesting) ==
    IF i > Len(s) THEN max_nesting
    ELSE IF s[i] = "("
    THEN MaxNesting(s, i + 1, current_nesting + 1,
                    IF current_nesting + 1 > max_nesting
                    THEN current_nesting + 1 ELSE max_nesting)
    ELSE IF s[i] = ")"
    THEN MaxNesting(s, i + 1, current_nesting - 1, max_nesting)
    ELSE MaxNesting(s, i + 1, current_nesting, max_nesting)

get_dax_complexity_score(expression) ==
    IF expression = None \/ expression = <<>> THEN 0
    ELSE SumOver(score_functions,
                 LAMBDA func : Count(Upper(expression), func, 1) * 3)
             + SumOver(score_operators,
                       LAMBDA op : Count(expression, op, 1))
             + MaxNesting(expression, 1, 0, 0) * 2
             + (Len(expression) \div 50)

categorize_dax_complexity(expression) ==
    Let(get_dax_complexity_score(expression),
        LAMBDA score : IF score <= 5 THEN <<"s","i","m","p","l","e">>
                       ELSE IF score <= 15 THEN <<"m","e","d","i","u","m">>
                       ELSE <<"c","o","m","p","l","e","x">>)

(***************************************************************************)
(* jsonl_generator.py: generate_model_context, one loop iteration at a     *)
(* time.  An entry holds its id, its type and the fields copied or         *)
(* computed from the metadata; sample_prompts and short_summary, and the   *)
(* title of a measure, texts formatted from the same fields, are left out. *)
(***************************************************************************)
\* [x for x in entries if not x["is_hidden"]]
VisibleOf(entries) == SelectSeq(entries, LAMBDA x : ~x.is_hidden)

generate_table_context(table_data) ==
    [id |-> table_data.name,
     type |-> "table",
     title |-> table_data.name \o <<" ">>
                   \o (IF table_data.is_hidden THEN <<"(","H","i","d","d","e","n",")">> ELSE <<>>),
     columns |-> [i \in DOMAIN VisibleOf(table_data.columns) |->
                      [name |-> VisibleOf(table_data.columns)[i].name,
                       type |-> VisibleOf(table_data.columns)[i].data_type,
                       desc |-> <<>>]]]

\* generate_measure_context: the entry it returns, or what it raises.
generate_measure_context(measure_data, table_name) ==
    Let(format_dax_for_json(measure_data.expression),
        LAMBDA formatted_dax :
            IF formatted_dax.exc # "none" THEN formatted_dax
            ELSE Return(
                [id |-> table_name \o <<".">> \o measure_data.name,
                 type |-> "measure",
                 expression |-> measure_data.expression,
                 formatted_expression |-> formatted_dax.value,
                 format_string |-> measure_data.format_string,
                 category |-> measure_data.category,
                 complexity |->
                     categorize_dax_complexity(measure_data.expression)]))

generate_relationship_context(rel_data) ==
    [id |-> rel_data.name,
     type |-> "relationship",
     title |-> <<"R","e","l","a","t","i","o","n","s","h","i","p",":"," ">> \o rel_data.from_table \o <<" ","-",">"," ">>
                   \o rel_data.to_table,
     from_table |-> rel_data.from_table,
     from_column |-> rel_data.from_column,
     to_table |-> rel_data.to_table,
     to_column |-> rel_data.to_column,
     cardinality |-> rel_data.cardinality,
     cross_filtering |-> rel_data.cross_filtering,
     is_active |-> rel_data.is_active]

\* Lines 135-149 with the summary of an empty model in place of the metadata's.
model_context_empty_summary(metadata) ==
    [id |-> <<"m","o","d","e","l","_","o","v","e","r","v","i","e","w">>,
     type |-> "model",
     title |-> <<"M","o","d","e","l",":"," ">> \o metadata.file_name,
     summary |-> [total_tables |-> 0, business_tables |-> 0,
                  technical_tables |-> 0, total_columns |-> 0,
                  total_measures |-> 0, total_relationships |-> 0],
     compatibility_level |-> metadata.compatibility_level,
     extraction_date |-> metadata.extraction_date]

\* Lines 135-149.
model_context(metadata) ==
    [id |-> <<"m","o","d","e","l","_","o","v","e","r","v","i","e","w">>,
     type |-> "model",
     title |-> <<"M","o","d","e","l",":"," ">> \o metadata.file_name,
     summary |-> metadata.summary,
     compatibility_level |-> metadata.compatibility_level,
     extraction_date |-> metadata.extraction_date]

\* [t for t in tables if not t["is_technical"]]
BusinessTables(metadata) ==
    SelectSeq(metadata.tables, LAMBDA t : ~t.is_technical)

\* Line 155 without the test for a visible measure.
SkippedTableWhenHidden(table) == table.is_hidden

\* A hidden table without any visible measure.
SkippedTable(table) == table.is_hidden /\ VisibleOf(table.measures) = <<>>

RECURSIVE MeasureContexts(_, _, _, _)
\* The loop of lines 163-165 from measure k on: the entries appended, or
\* what a call raised.
MeasureContexts(measures, table_name, k, acc) ==
    IF k > Len(measures) THEN Return(acc)
    ELSE Let(generate_measure_context(measures[k], table_name),
             LAMBDA measure_context :
                 IF measure_context.exc # "none" THEN measure_context
                 ELSE MeasureContexts(measures, table_name, k + 1,
                                      Append(acc, measure_context.value)))

\* Lines 132-150: the model entry.
AppendModelContext ==
    /\ pc = "call"
    /\ call.fn = "generate_model_context"
    /\ context_entries' = <<model_context(call.cleaned_metadata)>>
    /\ pc' = "tables"
    /\ idx' = 1
    /\ UNCHANGED <<call, result, cleaned_metadata, warnings, last_error, doc,
                   success_count, attempted, diff_files>>

\* Lines 154-165: one iteration of the loop over the business tables.
AppendTableContext ==
    /\ pc = "tables"
    /\ call.fn = "generate_model_context"
    /\ idx <= Len(BusinessTables(call.cleaned_metadata))
    /\ \E table \in {BusinessTables(call.cleaned_metadata)[idx]} :
           IF SkippedTable(table)
           THEN /\ idx' = idx + 1
                /\ UNCHANGED <<pc, result, context_entries>>
           ELSE \E measures \in
                       {MeasureContexts(VisibleOf(table.measures), table.name,
                                        1, <<>>)} :
                    IF measures.exc # "none"
                    THEN /\ pc' = "raised"
                         /\ result' = measures
                         /\ context_entries' =
                                Append(context_entries,
                                       generate_table_context(table))
                         /\ UNCHANGED idx
                    ELSE /\ context_entries' =
                                Append(context_entries,
                                       generate_table_context(table))
                                    \o measures.value
                         /\ idx' = idx + 1
                         /\ UNCHANGED <<pc, result>>
    /\ UNCHANGED <<call, cleaned_metadata, warnings, last_error, doc,
                   success_count, attempted, diff_files>>

\* The table loop ends and the relationship loop begins.
TableContextsDone ==
    /\ pc = "tables"
    /\ call.fn = "generate_model_context"
    /\ idx > Len(BusinessTables(call.cleaned_metadata))
    /\ pc' = "relationships"
    /\ idx' = 1
    /\ UNCHANGED <<call, result, cleaned_metadata, warnings, last_error,
                   context_entries, doc, success_count, attempted, diff_files>>

\* Lines 168-170: one iteration of the relationship loop.
AppendRelationshipContext ==
    /\ pc = "relationships"
    /\ call.fn = "generate_model_context"
    /\ idx <= Len(call.cleaned_metadata.relationships)
    /\ context_entries' =
           Append(context_entries,
                  generate_relationship_context(
                      call.cleaned_metadata.relationships[idx]))
    /\ idx' = idx + 1
    /\ UNCHANGED <<pc, call, result, cleaned_metadata, warnings, last_error,
                   doc, success_count, attempted, diff_files>>

\* Line 172.
ReturnContextEntries ==
    /\ pc = "relationships"
    /\ call.fn = "generate_model_context"
    /\ idx > Len(call.cleaned_metadata.relationships)
    /\ pc' = "returned"
    /\ result' = Return(context_entries)
    /\ UNCHANGED <<call, cleaned_metadata, idx, warnings, last_error,
                   context_entries, doc, success_count, attempted, diff_files>>

ContextNext ==
    \/ AppendModelContext
    \/ AppendTableContext
    \/ TableContextsDone
    \/ AppendRelationshipContext
    \/ ReturnContextEntries

(***************************************************************************)
(* Cleaned metadata as process_schema builds it, for the generators that   *)
(* read it.  MaxMetadataEntries bounds the tables, columns, measures and   *)
(* relationships of one model, taken together.                             *)
(***************************************************************************)
MaxMetadataEntries == 4

\* A column as process_column stores it.
ColumnData(name, data_type, is_hidden) ==
    [name |-> name,
     data_type |-> data_type,
     is_hidden |-> is_hidden,
     source_column |-> name,
     format_string |-> <<>>,
     category |-> get_column_category(data_type, name)]

\* A measure as process_measure stores it.
MeasureData(name, expression, format_string, is_hidden) ==
    [name |-> name,
     expression |-> expression,
     formatted_expression |-> safe_format_dax(expression),
     format_string |-> format_string,
     is_hidden |-> is_hidden,
     display_folder |-> <<>>,
     category |-> categorize_measure(name, expression)]

\* A table as the table loop of process_schema stores it.
TableData(name, is_hidden, columns, measures) ==
    [name |-> name,
     is_hidden |-> is_hidden,
     is_technical |-> is_technical_table(name),
     columns |-> columns,
     measures |-> measures,
     partition_count |-> 1]

\* A relationship as the relationship loop stores it.
RelationshipData(name, from_table, to_table, is_active) ==
    [name |-> name,
     from_table |-> from_table,
     from_column |-> <<"K","e","y">>,
     to_table |-> to_table,
     to_column |-> <<"K","e","y">>,
     cardinality |-> <<"m","a","n","y",":","o","n","e">>,
     cross_filtering |-> <<"O","n","e","D","i","r","e","c","t","i","o","n">>,
     is_active |-> is_active]

MetadataColumns ==
    {ColumnData(<<"A","m","o","u","n","t">>, <<"d","e","c","i","m","a","l">>, FALSE),
     ColumnData(<<"K","e","y">>, <<"i","n","t","6","4">>, TRUE)}

MetadataMeasures ==
    {MeasureData(<<"T","o","t","a","l"," ","S","a","l","e","s">>, <<"S","U","M","(","x",")">>, <<"0",".","0","0">>, FALSE),
     MeasureData(<<"H","e","l","p","e","r">>, <<"I","F","(","a",",","b",")">>, <<>>, TRUE)}

MetadataRelationships ==
    {RelationshipData(<<"r","1">>, <<"S","a","l","e","s">>, <<"D","a","t","e","s">>, TRUE),
     RelationshipData(<<"r","2">>, <<"D","a","t","e","s">>, <<"S","a","l","e","s">>, FALSE)}

MetadataTableNames == {<<"S","a","l","e","s">>, <<"L","o","c","a","l","D","a","t","e","T","a","b","l","e","_","1">>}

\* The tables of at most n entries, the table itself included.
MetadataTables(n) ==
    IF n < 1 THEN {}
    ELSE UNION {
        {TableData(name, is_hidden, columns, measures) :
             name \in MetadataTableNames, is_hidden \in BOOLEAN,
             measures \in SeqsUpTo(MetadataMeasures, n - 1 - Len(columns))} :
        columns \in SeqsUpTo(MetadataColumns, n - 1)}

\* The entries of a table: itself, its columns and its measures.
TableEntries(table) == 1 + Len(table.columns) + Len(table.measures)

RECURSIVE MetadataTableLists(_)
\* The lists of tables of at most n entries in all.
MetadataTableLists(n) ==
    {<<>>} \cup UNION {
        {<<table>> \o rest : rest \in MetadataTableLists(n - TableEntries(table))} :
        table \in MetadataTables(n)}

RECURSIVE TotalEntries(_)
TotalEntries(tables) ==
    IF tables = <<>> THEN 0
    ELSE TableEntries(Head(tables)) + TotalEntries(Tail(tables))

RECURSIVE CountVisible(_, _)
\* The visible columns (field "columns") or measures ("measures") of tables.
CountVisible(tables, field) ==
    IF tables = <<>> THEN 0
    ELSE Len(VisibleOf(Head(tables)[field])) + CountVisible(Tail(tables), field)

\* The summary process_schema leaves for these tables and relationships.
SummaryOf(tables, relationships) ==
    [total_tables |-> Len(tables),
     business_tables |-> Len(SelectSeq(tables, LAMBDA t : ~t.is_technical)),
     technical_tables |-> Len(SelectSeq(tables, LAMBDA t : t.is_technical)),
     total_columns |-> CountVisible(tables, "columns"),
     total_measures |-> CountVisible(tables, "measures"),
     total_relationships |-> Len(relationships)]

CleanedMetadata(tables, relationships) ==
    [file_name |-> <<"m","o","d","e","l",".","p","b","i","t">>,
     extraction_date |-> <<"2","0","2","4","-","0","1","-","0","1","T","0","0",":","0","0",":","0","0">>,
     compatibility_level |-> JStr(<<"1","5","5","0">>),
     summary |-> SummaryOf(tables, relationships),
     tables |-> tables,
     relationships |-> relationships]

InitContext ==
    \E tables \in MetadataTableLists(MaxMetadataEntries) :
    \E relationships \in SeqsUpTo(MetadataRelationships,
                                  MaxMetadataEntries - TotalEntries(tables)) :
        Awaiting([fn |-> "generate_model_context",
                  cleaned_metadata |-> CleanedMetadata(tables, relationships)])

SpecContext == InitContext /\ [][ContextNext]_vars

ContextReturned == pc = "returned" /\ call.fn = "generate_model_context"

\* C12: the list generate_model_context returns holds exactly one entry of
\* type 'model', that entry is the first of the list, and its summary is the
\* summary of the metadata.
C12_OneModelEntryFirst ==
    ContextReturned =>
        /\ result.exc = "none"
        /\ Len(result.value) >= 1
        /\ result.value[1].type = "model"
        /\ result.value[1].summary = call.cleaned_metadata.summary
        /\ \A i \in 2..Len(result.value) : result.value[i].type # "model"

C12_Witness ==
    /\ ContextReturned
    /\ Len(result.value) >= 3
    /\ result.value[1].type = "model"
    /\ result.value[1].summary.total_measures = 1
    /\ result.value[1].summary.total_relationships = 1

\* The type and id of each entry, in order.
EntryKeys(entries) ==
    [i \in DOMAIN entries |-> [type |-> entries[i].type, id |-> entries[i].id]]

\* A table that is documented: not technical, and visible or with a visible
\* measure.
Documented(table) ==
    /\ ~table.is_technical
    /\ ~table.is_hidden \/ \E i \in DOMAIN table.measures :
                               ~table.measures[i].is_hidden

RECURSIVE ExpectedTableKeys(_)
\* For each documented table in order: the table, then its visible measures.
ExpectedTableKeys(tables) ==
    IF tables = <<>> THEN <<>>
    ELSE (IF Documented(Head(tables))
          THEN <<[type |-> "table", id |-> Head(tables).name]>>
                   \o [i \in DOMAIN VisibleOf(Head(tables).measures) |->
                           [type |-> "measure",
                            id |-> Head(tables).name \o <<".">>
                                     \o VisibleOf(Head(tables).measures)[i].name]]
          ELSE <<>>)
         \o ExpectedTableKeys(Tail(tables))

\* C19: generate_model_context emits the model entry, then for each
\* non-technical table in input order its table entry followed by one measure
\* entry per non-hidden measure, then one entry per relationship; technical
\* tables, hidden tables without a visible measure and hidden measures give
\* no entry.
C19_EmissionOrder ==
    ContextReturned =>
        /\ result.exc = "none"
        /\ EntryKeys(result.value) =
               <<[type |-> "model", id |-> <<"m","o","d","e","l","_","o","v","e","r","v","i","e","w">>]>>
                   \o ExpectedTableKeys(call.cleaned_metadata.tables)
                   \o [i \in DOMAIN call.cleaned_metadata.relationships |->
                           [type |-> "relationship",
                            id |-> call.cleaned_metadata.relationships[i].name]]

C19_Witness ==
    /\ ContextReturned
    /\ Len(call.cleaned_metadata.tables) = 1
    /\ call.cleaned_metadata.tables[1].is_hidden
    /\ Len(call.cleaned_metadata.tables[1].measures) = 2
    /\ ~call.cleaned_metadata.tables[1].measures[1].is_hidden
    /\ call.cleaned_metadata.tables[1].measures[2].is_hidden
    /\ Len(call.cleaned_metadata.relationships) = 1
    /\ EntryKeys(result.value) =
           <<[type |-> "model", id |-> <<"m","o","d","e","l","_","o","v","e","r","v","i","e","w">>],
             [type |-> "table", id |-> <<"S","a","l","e","s">>],
             [type |-> "measure", id |-> <<"S","a","l","e","s",".","T","o","t","a","l"," ","S","a","l","e","s">>],
             [type |-> "relationship", id |-> <<"r","1">>]>>

(***************************************************************************)
(* diff.py                                                                 *)
(***************************************************************************)
\* The printable ASCII characters in code point order, from the space (32);
\* the place of the backquote (96) is left empty.
Printable ==
    <<" ","!","\"","#","$","%","&","'","(",")","*","+",",","-",".","/","0",
      "1","2","3","4","5","6","7","8","9",":",";","<","=",">","?","@","A",
      "B","C","D","E","F","G","H","I","J","K","L","M","N","O","P","Q","R",
      "S","T","U","V","W","X","Y","Z","[","\\","]","^","_","","a","b","c",
      "d","e","f","g","h","i","j","k","l","m","n","o","p","q","r","s","t",
      "u","v","w","x","y","z","{","|","}","~">>

\* ord(c)
CodePoint(c) == 31 + (CHOOSE i \in DOMAIN Printable : Printable[i] = c)

RECURSIVE StrLess(_, _)
\* s < t for two str
StrLess(s, t) ==
    IF t = <<>> THEN FALSE
    ELSE IF s = <<>> THEN TRUE
    ELSE IF Head(s) # Head(t) THEN CodePoint(Head(s)) < CodePoint(Head(t))
    ELSE StrLess(Tail(s), Tail(t))

RECURSIVE TupleLess(_, _)
\* a < b for two tuples of str
TupleLess(a, b) ==
    IF b = <<>> THEN FALSE
    ELSE IF a = <<>> THEN TRUE
    ELSE IF Head(a) # Head(b) THEN StrLess(Head(a), Head(b))
    ELSE TupleLess(Tail(a), Tail(b))

RECURSIVE SortedList(_)
\* sorted(list(items)) for a set of tuples
SortedList(items) ==
    IF items = {} THEN <<>>
    ELSE Let(CHOOSE x \in items : \A y \in items \ {x} : TupleLess(x, y),
             LAMBDA least : <<least>> \o SortedList(items \ {least}))

measure_set(meta) ==
    UNION {{<<meta.tables[t].name, meta.tables[t].measures[m].name>> :
                m \in DOMAIN meta.tables[t].measures} :
           t \in DOMAIN meta.tables}

\* Lines 16-29 with the relationship's name in place of its six fields.
rel_set_by_name(meta) ==
    {<<meta.relationships[r].name>> : r \in DOMAIN meta.relationships}

rel_set(meta) ==
    {<<meta.relationships[r].from_table, meta.relationships[r].from_column,
       meta.relationships[r].to_table, meta.relationships[r].to_column,
       meta.relationships[r].cardinality,
       meta.relationships[r].cross_filtering>> :
         r \in DOMAIN meta.relationships}

\* Lines 38-39 with the two differences exchanged.
diff_models_exchanged(meta_a, meta_b) ==
    [a_model |-> meta_a.file_name,
     b_model |-> meta_b.file_name,
     measures_added |->
         SortedList(measure_set(meta_a) \ measure_set(meta_b)),
     measures_removed |->
         SortedList(measure_set(meta_b) \ measure_set(meta_a)),
     relationships_added |-> SortedList(rel_set(meta_b) \ rel_set(meta_a)),
     relationships_removed |-> SortedList(rel_set(meta_a) \ rel_set(meta_b))]

diff_models(meta_a, meta_b) ==
    [a_model |-> meta_a.file_name,
     b_model |-> meta_b.file_name,
     measures_added |->
         SortedList(measure_set(meta_b) \ measure_set(meta_a)),
     measures_removed |->
         SortedList(measure_set(meta_a) \ measure_set(meta_b)),
     relationships_added |-> SortedList(rel_set(meta_b) \ rel_set(meta_a)),
     relationships_removed |-> SortedList(rel_set(meta_a) \ rel_set(meta_b))]

MaxDiffEntries == 3

DiffMeasures ==
    {MeasureData(<<"T","o","t","a","l">>, <<"S","U","M","(","x",")">>, <<>>, FALSE),
     MeasureData(<<"a","v","g">>, <<"A","V","E","R","A","G","E","(","x",")">>, <<>>, FALSE)}

\* Two of the three have the same six fields and differ by their name.
DiffRelationships ==
    {RelationshipData(<<"r","1">>, <<"S","a","l","e","s">>, <<"D","a","t","e","s">>, TRUE),
     RelationshipData(<<"r","2">>, <<"D","a","t","e","s">>, <<"S","a","l","e","s">>, TRUE),
     RelationshipData(<<"r","3">>, <<"S","a","l","e","s">>, <<"D","a","t","e","s">>, TRUE)}

\* The tables of at most n entries, the table itself included.
DiffTables(n) ==
    IF n < 1 THEN {}
    ELSE {TableData(name, FALSE, <<>>, measures) :
              name \in {<<"S","a","l","e","s">>, <<"C","o","s","t","s">>},
              measures \in SeqsUpTo(DiffMeasures, n - 1)}

RECURSIVE DiffTableLists(_)
DiffTableLists(n) ==
    {<<>>} \cup UNION {
        {<<table>> \o rest : rest \in DiffTableLists(n - TableEntries(table))} :
        table \in DiffTables(n)}

\* The models of at most n tables, measures and relationships in all.
DiffModels(n) ==
    UNION {{CleanedMetadata(tables, relationships) :
                relationships \in SeqsUpTo(DiffRelationships,
                                           n - TotalEntries(tables))} :
           tables \in DiffTableLists(n)}

InitDiff ==
    \E meta_a \in DiffModels(MaxDiffEntries) :
    \E meta_b \in DiffModels(MaxDiffEntries) :
        Awaiting([fn |-> "diff_models", meta_a |-> meta_a, meta_b |-> meta_b])

DiffModelsCall ==
    /\ pc = "call"
    /\ call.fn = "diff_models"
    /\ Returns(diff_models(call.meta_a, call.meta_b))

SpecDiff == InitDiff /\ [][DiffModelsCall]_vars

\* Every element of the list is less than the next.
Ascending(list) ==
    \A i \in 1..(Len(list) - 1) : TupleLess(list[i], list[i + 1])

\* The (table name, measure name) pairs of a model.
MeasurePairs(meta) ==
    {pair \in {<<table.name, measure.name>> :
                   table \in Range(meta.tables),
                   measure \in UNION {Range(table.measures) :
                                          table \in Range(meta.tables)}} :
         \E table \in Range(meta.tables) :
             /\ table.name = pair[1]
             /\ \E measure \in Range(table.measures) : measure.name = pair[2]}

\* The relationships of a model by their six fields.
RelationshipKeys(meta) ==
    {<<r.from_table, r.from_column, r.to_table, r.to_column, r.cardinality,
       r.cross_filtering>> : r \in Range(meta.relationships)}

\* C13: diff_models(A, B) gives as measures_added the (table, measure) pairs
\* of B that A lacks, as measures_removed those of A that B lacks, and the
\* same for the relationships by their six fields; each list is ascending
\* without a repeated element.
C13_DiffLists ==
    Done("diff_models") =>
        /\ result.exc = "none"
        /\ Range(result.value.measures_added) =
               MeasurePairs(call.meta_b) \ MeasurePairs(call.meta_a)
        /\ Range(result.value.measures_removed) =
               MeasurePairs(call.meta_a) \ MeasurePairs(call.meta_b)
        /\ Range(result.value.relationships_added) =
               RelationshipKeys(call.meta_b) \ RelationshipKeys(call.meta_a)
        /\ Range(result.value.relationships_removed) =
               RelationshipKeys(call.meta_a) \ RelationshipKeys(call.meta_b)
        /\ Ascending(result.value.measures_added)
        /\ Ascending(result.value.measures_removed)
        /\ Ascending(result.value.relationships_added)
        /\ Ascending(result.value.relationships_removed)

C13_Witness ==
    /\ Done("diff_models")
    /\ result.value.measures_added =
           <<<<<<"S","a","l","e","s">>, <<"T","o","t","a","l">>>>, <<<<"S","a","l","e","s">>, <<"a","v","g">>>>>>
    /\ Len(call.meta_b.tables[1].measures) = 2
    /\ call.meta_b.tables[1].measures[1].name = <<"a","v","g">>
    /\ Len(result.value.relationships_removed) = 1
    /\ Len(call.meta_a.relationships) = 2

(***************************************************************************)
(* cli.py: main.  What process_file does with one file is its outcome:     *)
(* "ok" when it returns, or the exception its handlers let out.            *)
(***************************************************************************)
MaxBatchFiles == 3

\* Lines 101-109: what process_file can raise.
ProcessFileErrors == {"PBITExtractionError", "ProcessingError"}

\* Lines 214-224 with the count of files replaced by "at least one".
batch_exit_code_any_success(success_count_, matched) ==
    IF success_count_ > 0 THEN 0 ELSE 1

\* Line 225.
batch_exit_code(success_count_, matched) ==
    IF success_count_ = Len(matched) THEN 0 ELSE 1

\* Lines 175-202 and 227-249: the way through main up to the batch loop.
MainStart ==
    /\ pc = "call"
    /\ call.fn = "main"
    /\ IF ~call.output_created
       THEN \* mkdir raises; line 247
            /\ pc' = "returned"
            /\ result' = Return(1)
            /\ UNCHANGED <<idx, success_count>>
       ELSE IF call.diff # <<>>
       THEN \* lines 180-184: a_path, b_path = args.diff
            /\ pc' = "diff"
            /\ idx' = 1
            /\ UNCHANGED <<result, success_count>>
       ELSE IF call.batch
       THEN IF call.matched = <<>>
            THEN /\ pc' = "returned"
                 /\ result' = Return(1)
                 /\ UNCHANGED <<idx, success_count>>
            ELSE /\ pc' = "batch"
                 /\ idx' = 1
                 /\ success_count' = 0
                 /\ UNCHANGED result
       ELSE /\ pc' = "returned"
            /\ result' = Return(IF call.input = "ok" THEN 0 ELSE 1)
            /\ UNCHANGED <<idx, success_count>>
    /\ UNCHANGED <<call, cleaned_metadata, warnings, last_error,
                   context_entries, doc, attempted, diff_files>>

\* Lines 216-222: one iteration of the batch loop.
BatchFile ==
    /\ pc = "batch"
    /\ idx <= Len(call.matched)
    /\ attempted' = Append(attempted, call.matched[idx].path)
    /\ success_count' = IF call.matched[idx].outcome = "ok"
                        THEN success_count + 1 ELSE success_count
    /\ idx' = idx + 1
    /\ UNCHANGED <<pc, call, result, cleaned_metadata, warnings, last_error,
                   context_entries, doc, diff_files>>

\* Lines 224-225.
BatchDone ==
    /\ pc = "batch"
    /\ idx > Len(call.matched)
    /\ pc' = "returned"
    /\ result' = Return(batch_exit_code(success_count, call.matched))
    /\ UNCHANGED <<call, cleaned_metadata, idx, warnings, last_error,
                   context_entries, doc, success_count, attempted, diff_files>>

\* Path.stem of a file name: the name up to its last dot, when that dot is
\* neither the first nor the last character.
Stem(name) ==
    IF \A i \in 2..(Len(name) - 1) : name[i] # "." THEN name
    ELSE SubSeq(name, 1,
                (CHOOSE i \in 2..(Len(name) - 1) :
                     /\ name[i] = "."
                     /\ \A j \in (i + 1)..(Len(name) - 1) : name[j] # ".") - 1)

\* Line 191: f"diff_{a_path.stem}_vs_{b_path.stem}.json"
DiffName(a_path, b_path) ==
    <<"d","i","f","f","_">> \o Stem(a_path) \o <<"_","v","s","_">>
        \o Stem(b_path) \o <<".","j","s","o","n">>

\* Lines 184-186 with the exception of process_file caught at the call, as
\* in the loop of lines 216-222.
ProcessFileReturnsOrIsSkipped(outcome) == TRUE

\* Lines 184-186 and 200: process_file returns the metadata, and the next
\* statement of the try block runs; or it raises, and the handler of line
\* 200 runs.
ProcessFileReturns(outcome) == outcome = "ok"

\* Lines 185-186 and 200-202: process_file for model A (idx = 1), then for
\* model B (idx = 2).
DiffProcessFile ==
    /\ pc = "diff"
    /\ idx <= Len(call.diff)
    /\ attempted' = Append(attempted, call.diff[idx].path)
    /\ IF ProcessFileReturns(call.diff[idx].outcome)
       THEN /\ idx' = idx + 1
            /\ UNCHANGED <<pc, result>>
       ELSE /\ pc' = "returned"
            /\ result' = Return(1)
            /\ UNCHANGED idx
    /\ UNCHANGED <<call, cleaned_metadata, warnings, last_error,
                   context_entries, doc, success_count, diff_files>>

\* Lines 188-202: the diff of the two models is written and main returns 0,
\* or open raises and main returns 1.
DiffWrite ==
    /\ pc = "diff"
    /\ idx > Len(call.diff)
    /\ IF call.diff_write = "ok"
       THEN /\ diff_files' = Append(diff_files,
                                    DiffName(call.diff[1].path,
                                             call.diff[2].path))
            /\ result' = Return(0)
       ELSE /\ result' = Return(1)
            /\ UNCHANGED diff_files
    /\ pc' = "returned"
    /\ UNCHANGED <<call, cleaned_metadata, idx, warnings, last_error,
                   context_entries, doc, success_count, attempted>>

MainNext ==
    \/ MainStart
    \/ DiffProcessFile
    \/ DiffWrite
    \/ BatchFile
    \/ BatchDone

\* The i-th path glob.glob returns: the paths of one list are distinct.
BatchPath(i) == <<"m","o","d","e","l">> \o <<Printable[17 + i]>> \o <<".","p","b","i","t">>

\* The lists glob.glob can return, with what process_file does for each file.
MatchedFiles ==
    UNION {[1..n -> {"ok"} \cup ProcessFileErrors] : n \in 0..MaxBatchFiles}

\* The values of args.diff: none, or the two paths A and B, which may be the
\* same, with what process_file does for each.
DiffArguments ==
    {<<>>} \cup
    {<<[path |-> BatchPath(a), outcome |-> outcome_a],
       [path |-> BatchPath(b), outcome |-> outcome_b]>> :
         a \in 1..2, b \in 1..2,
         outcome_a \in {"ok"} \cup ProcessFileErrors,
         outcome_b \in {"ok"} \cup ProcessFileErrors}

InitMain ==
    \E output_created \in BOOLEAN :
    \E diff \in DiffArguments :
    \E diff_write \in {"ok", "OSError"} :
    \E outcomes \in MatchedFiles :
    \E batch \in BOOLEAN :
    \E input \in {"none", "missing", "not_pbit", "ok", "fails"} :
        /\ batch \/ outcomes = <<>>
        /\ diff # <<>> \/ diff_write = "ok"
        /\ Awaiting([fn |-> "main",
                     output_created |-> output_created,
                     diff |-> diff,
                     diff_write |-> diff_write,
                     batch |-> batch,
                     matched |-> [i \in DOMAIN outcomes |->
                                      [path |-> BatchPath(i),
                                       outcome |-> outcomes[i]]],
                     input |-> input])

SpecMain == InitMain /\ [][MainNext]_vars

\* main reaches line 204 with a pattern: no --diff, output directory made.
BatchMode ==
    /\ call.fn = "main"
    /\ call.output_created
    /\ call.diff = <<>>
    /\ call.batch

PathsOf(matched) == [i \in DOMAIN matched |-> matched[i].path]

\* C14: in batch mode main attempts every matched file exactly once, one
\* file's failure does not keep the later files from being attempted, and
\* main returns 0 exactly when at least one file matched and all of them
\* succeeded, and 1 otherwise.
C14_BatchMode ==
    /\ (BatchMode /\ pc = "batch") =>
           attempted = SubSeq(PathsOf(call.matched), 1, idx - 1)
    /\ (BatchMode /\ pc = "returned") =>
           /\ attempted = PathsOf(call.matched)
           /\ \A i, j \in DOMAIN attempted :
                  attempted[i] = attempted[j] => i = j
           /\ result.exc = "none"
           /\ result.value \in {0, 1}
           /\ result.value = 0 <=>
                  /\ Len(call.matched) >= 1
                  /\ \A i \in DOMAIN call.matched :
                         call.matched[i].outcome = "ok"

C14_Witness ==
    /\ BatchMode
    /\ pc = "returned"
    /\ Len(call.matched) = 3
    /\ call.matched[1].outcome = "ok"
    /\ call.matched[2].outcome = "ProcessingError"
    /\ call.matched[3].outcome = "ok"
    /\ attempted = <<BatchPath(1), BatchPath(2), BatchPath(3)>>
    /\ success_count = 2
    /\ result = Return(1)

(***************************************************************************)
(* formatters.py: _align_closing_parentheses called on a text of lines     *)
(***************************************************************************)
MaxAlignLines == 3

\* The lines the texts given to the aligner are made of.
AlignLines ==
    {<<"C","A","L","C","U","L","A","T","E","(">>, <<" "," "," "," ","I","F","(">>, <<" "," "," "," ","I","F","(","a",")">>, <<" "," "," "," ","S","U","M","(">>, <<" "," "," "," "," "," "," "," ","a">>,
     <<")">>, <<" "," "," "," ",")">>, <<" "," "," "," "," "," "," "," ",")">>}

AlignCalls ==
    {[fn |-> "align_closing_parentheses", formatted |-> Join(lines, "\n")] :
         lines \in SeqsUpTo(AlignLines, MaxAlignLines) \ {<<>>}}

\* _align_closing_parentheses returns or raises.
AlignClosingParentheses ==
    /\ pc = "call"
    /\ call.fn = "align_closing_parentheses"
    /\ pc' = "done"
    /\ result' = align_closing_parentheses(call.formatted)
    /\ UNCHANGED <<call, cleaned_metadata, idx, warnings, last_error>>
    /\ UNCHANGED written

SpecAlign == PureInit(AlignCalls) /\ [][AlignClosingParentheses]_vars

RECURSIVE OpenerFrom(_, _, _, _)
\* The line of the "(" that is still open after lines[l][c], reading
\* backwards with depth closing parentheses to match first; 0 if none.
OpenerFrom(lines, l, c, depth) ==
    IF l < 1 THEN 0
    ELSE IF c < 1
    THEN OpenerFrom(lines, l - 1, IF l > 1 THEN Len(lines[l - 1]) ELSE 0, depth)
    ELSE IF lines[l][c] = ")" THEN OpenerFrom(lines, l, c - 1, depth + 1)
    ELSE IF lines[l][c] = "("
    THEN IF depth = 0 THEN l ELSE OpenerFrom(lines, l, c - 1, depth - 1)
    ELSE OpenerFrom(lines, l, c - 1, depth)

\* The line that opened the call which the ")" alone on line i closes.
OpeningLine(lines, i) ==
    IF i = 1 THEN 0 ELSE OpenerFrom(lines, i - 1, Len(lines[i - 1]), 0)

IndentOf(line) == Len(line) - Len(LStrip(line))

\* C15: _align_closing_parentheses gives every line that holds only ")" the
\* indentation of the line that opened the call this parenthesis closes,
\* when a complex function opened it, also after an inner complex function
\* call that was opened and closed on one line.
C15_AlignedWithOpeningLine ==
    Done("align_closing_parentheses") =>
        /\ result.exc = "none"
        /\ \A i \in DOMAIN Split(call.formatted, "\n") :
               LET lines == Split(call.formatted, "\n")
                   opening == OpeningLine(lines, i)
               IN  (/\ Strip(lines[i]) = <<")">>
                    /\ opening > 0
                    /\ is_complex_function_line(lines[opening]))
                       => Split(result.value, "\n")[i] =
                              Spaces(IndentOf(lines[opening])) \o <<")">>

\* CALCULATE( / IF(a) / ")": the parenthesis closes CALCULATE, of
\* indentation 0, and is given the indentation of the IF line.
C15_Witness ==
    /\ Done("align_closing_parentheses")
    /\ call.formatted = Join(<<<<"C","A","L","C","U","L","A","T","E","(">>, <<" "," "," "," ","I","F","(","a",")">>, <<")">>>>, "\n")
    /\ result = Return(Join(<<<<"C","A","L","C","U","L","A","T","E","(">>, <<" "," "," "," ","I","F","(","a",")">>, <<" "," "," "," ",")">>>>, "\n"))

(***************************************************************************)
(* extractor.py: clean_json_text and the two parsing attempts of           *)
(* parse_json_with_fallback, on the text itself                            *)
(***************************************************************************)
\* The replacement r"\\1" of lines 78 and 84: in a replacement template the
\* two backslashes are one backslash and the 1 is a digit, no group.
Replacement == <<"\\", "1">>

\* The first index from i on that holds a line feed, or Len(s) + 1.
RECURSIVE EndOfLine(_, _)
EndOfLine(s, i) ==
    IF i > Len(s) \/ s[i] = "\n" THEN i ELSE EndOfLine(s, i + 1)

\* [ \t]*// matches at j: the index of the first slash, or 0.
CommentAt(s, j) ==
    LET k == SkipWhile(s, j, TRUE)
    IN  IF k + 1 <= Len(s) /\ s[k] = "/" /\ s[k + 1] = "/" THEN k ELSE 0

\* (^|[\s{,\[])[ \t]*//.*?$ with re.MULTILINE matches at i: the index after
\* the match, or 0.
LineCommentEnd(s, i) ==
    IF (i = 1 \/ s[i - 1] = "\n") /\ CommentAt(s, i) > 0
    THEN EndOfLine(s, CommentAt(s, i) + 2)
    ELSE IF (IsSpace(s[i]) \/ s[i] \in {"{", ",", "["})
            /\ CommentAt(s, i + 1) > 0
    THEN EndOfLine(s, CommentAt(s, i + 1) + 2)
    ELSE 0

RECURSIVE SubLineComments(_, _)
\* Line 78, from index i on.
SubLineComments(s, i) ==
    IF i > Len(s) THEN <<>>
    ELSE IF LineCommentEnd(s, i) > 0
    THEN Replacement \o SubLineComments(s, LineCommentEnd(s, i))
    ELSE <<s[i]>> \o SubLineComments(s, i + 1)

\* The first index from i on where */ begins, or 0.
RECURSIVE BlockCommentClose(_, _)
BlockCommentClose(s, i) ==
    IF i + 1 > Len(s) THEN 0
    ELSE IF s[i] = "*" /\ s[i + 1] = "/" THEN i
    ELSE BlockCommentClose(s, i + 1)

RECURSIVE SubBlockComments(_, _)
\* Line 81, from index i on.
SubBlockComments(s, i) ==
    IF i > Len(s) THEN <<>>
    ELSE IF /\ i + 1 <= Len(s)
            /\ s[i] = "/"
            /\ s[i + 1] = "*"
            /\ BlockCommentClose(s, i + 2) > 0
    THEN SubBlockComments(s, BlockCommentClose(s, i + 2) + 2)
    ELSE <<s[i]>> \o SubBlockComments(s, i + 1)

\* ,\s*([}\]]) matches at i: the index of the bracket, or 0.
TrailingCommaAt(s, i) ==
    LET j == SkipWhile(s, i + 1, FALSE)
    IN  IF s[i] = "," /\ j <= Len(s) /\ s[j] \in {"}", "]"} THEN j ELSE 0

RECURSIVE SubTrailingCommas(_, _)
\* Line 84, from index i on.
SubTrailingCommas(s, i) ==
    IF i > Len(s) THEN <<>>
    ELSE IF TrailingCommaAt(s, i) > 0
    THEN Replacement \o SubTrailingCommas(s, TrailingCommaAt(s, i) + 1)
    ELSE <<s[i]>> \o SubTrailingCommas(s, i + 1)

\* The byte order mark and the NUL character, each one character.
BOM == "BOM"

NUL == "NUL"

RECURSIVE LStripBOM(_)
\* text.lstrip(BOM)
LStripBOM(s) == IF s # <<>> /\ Head(s) = BOM THEN LStripBOM(Tail(s)) ELSE s

clean_json_text(text) ==
    SubTrailingCommas(
        SubBlockComments(
            SubLineComments(SelectSeq(LStripBOM(text), LAMBDA c : c # NUL), 1),
            1),
        1)

(***************************************************************************)
(* json.loads for texts of objects, arrays, strings and unsigned integers; *)
(* the literals true, false and null and the other forms of number occur   *)
(* in none of the texts parsed here.                                       *)
(***************************************************************************)
JInt(n) == [type |-> "int", val |-> n]

NoParse == [ok |-> FALSE, next |-> 0, value |-> JNull]

Parsed(value, next) == [ok |-> TRUE, next |-> next, value |-> value]

\* The character an escape stands for, or <<>> for one that is no escape.
Unescape(c) ==
    IF c \in {"\"", "\\", "/"} THEN <<c>>
    ELSE IF c = "n" THEN <<"\n">>
    ELSE IF c = "t" THEN <<"\t">>
    ELSE <<>>

RECURSIVE ParseString(_, _, _)
\* The rest of a string from index i on, after its opening quote.
ParseString(s, i, chars) ==
    IF i > Len(s) \/ s[i] \in {"\n", "\t", NUL} THEN NoParse
    ELSE IF s[i] = "\"" THEN Parsed(JStr(chars), i + 1)
    ELSE IF s[i] = "\\"
    THEN IF i + 1 > Len(s) \/ Unescape(s[i + 1]) = <<>> THEN NoParse
         ELSE ParseString(s, i + 2, chars \o Unescape(s[i + 1]))
    ELSE ParseString(s, i + 1, Append(chars, s[i]))

RECURSIVE ParseInt(_, _, _)
\* The digits from index i on.
ParseInt(s, i, n) ==
    IF i <= Len(s) /\ s[i] \in Digits
    THEN ParseInt(s, i + 1, 10 * n + CodePoint(s[i]) - 48)
    ELSE Parsed(JInt(n), i)

\* JSON whitespace is skipped from index i on.
SkipBlank(s, i) == SkipWhile(s, i, FALSE)

RECURSIVE ParseValue(_, _)
RECURSIVE ParseMembers(_, _, _, _)
RECURSIVE ParseItems(_, _, _, _)
\* A value that begins at index i.
ParseValue(s, i) ==
    IF i > Len(s) THEN NoParse
    ELSE IF s[i] = "{" THEN ParseMembers(s, SkipBlank(s, i + 1), <<>>, TRUE)
    ELSE IF s[i] = "[" THEN ParseItems(s, SkipBlank(s, i + 1), <<>>, TRUE)
    ELSE IF s[i] = "\"" THEN ParseString(s, i + 1, <<>>)
    ELSE IF s[i] = "0" THEN Parsed(JInt(0), i + 1)
    ELSE IF s[i] \in Digits THEN ParseInt(s, i, 0)
    ELSE NoParse

\* The members of an object from index i on; first: none was read yet.  The
\* keys of the dict are the character sequences read.
ParseMembers(s, i, fields, first) ==
    IF i > Len(s) THEN NoParse
    ELSE IF first /\ s[i] = "}" THEN Parsed(JDict(fields), i + 1)
    ELSE IF s[i] # "\"" THEN NoParse
    ELSE Let(ParseString(s, i + 1, <<>>),
             LAMBDA key :
        IF ~key.ok THEN NoParse
        ELSE IF SkipBlank(s, key.next) > Len(s)
                \/ s[SkipBlank(s, key.next)] # ":" THEN NoParse
        ELSE Let(ParseValue(s, SkipBlank(s, SkipBlank(s, key.next) + 1)),
                 LAMBDA member :
            IF ~member.ok THEN NoParse
            ELSE Let(SkipBlank(s, member.next),
                     LAMBDA j :
                IF j > Len(s) THEN NoParse
                ELSE IF s[j] = ","
                THEN ParseMembers(s, SkipBlank(s, j + 1),
                                  (key.value.val :> member.value) @@ fields,
                                  FALSE)
                ELSE IF s[j] = "}"
                THEN Parsed(JDict((key.value.val :> member.value) @@ fields),
                            j + 1)
                ELSE NoParse)))

\* The items of an array from index i on; first: none was read yet.
ParseItems(s, i, items, first) ==
    IF i > Len(s) THEN NoParse
    ELSE IF first /\ s[i] = "]" THEN Parsed(JList(items), i + 1)
    ELSE Let(ParseValue(s, i),
             LAMBDA item :
        IF ~item.ok THEN NoParse
        ELSE Let(SkipBlank(s, item.next),
                 LAMBDA j :
            IF j > Len(s) THEN NoParse
            ELSE IF s[j] = ","
            THEN ParseItems(s, SkipBlank(s, j + 1),
                            Append(items, item.value), FALSE)
            ELSE IF s[j] = "]"
            THEN Parsed(JList(Append(items, item.value)), j + 1)
            ELSE NoParse))

\* json.loads(text): the value, or JSONDecodeError.
json_loads(text) ==
    Let(ParseValue(text, SkipBlank(text, 1)),
        LAMBDA parsed :
            IF parsed.ok /\ SkipBlank(text, parsed.next) > Len(text)
            THEN Return(parsed.value)
            ELSE Raise("JSONDecodeError"))

\* Lines 103-118 of parse_json_with_fallback, for the text line 96 decoded.
parse_json_text(schema_text) ==
    Let(json_loads(schema_text),
        LAMBDA direct :
            IF direct.exc = "none" THEN direct
            ELSE Let(json_loads(clean_json_text(schema_text)),
                     LAMBDA cleaned :
                         IF cleaned.exc = "none" THEN cleaned
                         ELSE Raise("SchemaParseError")))

MaxJsonTokens == 4

\* The pieces the texts given to the parser are made of.
JsonTokens ==
    { <<"{", "\"", "a", "\"", ":">>, <<"}">>, <<"[">>, <<"]">>, <<",">>,
      <<"1">>, <<" ">>, <<"/", "*", "c", "*", "/">>,
      <<"/", "/", "c", "\n">> }

\* Both parsing attempts on the text of the call.
ParseJsonText ==
    /\ pc = "call"
    /\ call.fn = "parse_json_text"
    /\ pc' = "done"
    /\ result' = parse_json_text(call.schema_text)
    /\ UNCHANGED <<call, cleaned_metadata, idx, warnings, last_error>>
    /\ UNCHANGED written

InitJson ==
    \E text \in WordStrings(JsonTokens, MaxJsonTokens) :
        Awaiting([fn |-> "parse_json_text", schema_text |-> text])

SpecJson == InitJson /\ [][ParseJsonText]_vars

RECURSIVE WithoutTrailingCommas(_, _)
\* The text from index i on without the commas that only whitespace parts
\* from a closing bracket; the bracket stays.
WithoutTrailingCommas(s, i) ==
    IF i > Len(s) THEN <<>>
    ELSE IF s[i] = "," /\ SkipBlank(s, i + 1) <= Len(s)
            /\ s[SkipBlank(s, i + 1)] \in {"}", "]"}
    THEN WithoutTrailingCommas(s, i + 1)
    ELSE <<s[i]>> \o WithoutTrailingCommas(s, i + 1)

\* JSON whose only defect is trailing commas: it does not parse, it holds no
\* comment, and it parses once the trailing commas are taken out.
OnlyTrailingCommas(text) ==
    /\ json_loads(text).exc # "none"
    /\ \A i \in DOMAIN text : text[i] # "/"
    /\ json_loads(WithoutTrailingCommas(text, 1)).exc = "none"

Brackets(text) == SelectSeq(text, LAMBDA c : c \in {"}", "]"})

\* C16: clean_json_text takes out each comma that only whitespace parts from
\* a "}" or "]" and keeps the bracket, so that a text whose only defect is
\* trailing commas is parsed by the second attempt of
\* parse_json_with_fallback.
C16_TrailingCommasCleaned ==
    (Done("parse_json_text") /\ OnlyTrailingCommas(call.schema_text)) =>
        /\ Brackets(clean_json_text(call.schema_text))
               = Brackets(call.schema_text)
        /\ result = json_loads(WithoutTrailingCommas(call.schema_text, 1))

\* {"a":1,} is cleaned to {"a":1\1 and both attempts fail.
C16_Witness ==
    /\ Done("parse_json_text")
    /\ call.schema_text = <<"{", "\"", "a", "\"", ":", "1", ",", "}">>
    /\ clean_json_text(call.schema_text)
           = <<"{", "\"", "a", "\"", ":", "1", "\\", "1">>
    /\ result = Raise("SchemaParseError")

\* C16, what holds: a text with a block comment as its only defect is parsed
\* by the second attempt.
C16_BlockCommentsCleaned ==
    (/\ Done("parse_json_text")
     /\ call.schema_text = <<"[", "1", "/", "*", "c", "*", "/", "]">>)
        => result = Return(JList(<<JInt(1)>>))

\* What the try block of the loop does with candidate k.
CandidateOutcome(k) == candidate_body(ZipRead(ModelEntries[k].name))

CandidateNames == [k \in DOMAIN ModelEntries |-> ModelEntries[k].name]

\* The candidate loop of parse_datamodel_schema has ended.
CandidatesTried ==
    /\ call.fn = "parse_datamodel_schema"
    /\ attempted # <<>>
    /\ pc \in {"returned", "raised"}

\* C17: parse_datamodel_schema tries the candidates in archive order and
\* returns the schema of the first that is read, parsed and passes
\* validate_schema_structure; the candidates before it failed without ending
\* the search, those after it are not read, and when all fail the
\* SchemaParseError reports the error of the last candidate.
C17_FirstValidCandidate ==
    /\ (call.fn = "parse_datamodel_schema" /\ pc = "candidates") =>
           /\ attempted = SubSeq(CandidateNames, 1, idx - 1)
           /\ \A k \in 1..(idx - 1) : CandidateOutcome(k).exc # "none"
    /\ (CandidatesTried /\ pc = "returned") =>
           /\ attempted = SubSeq(CandidateNames, 1, Len(attempted))
           /\ \A k \in 1..(Len(attempted) - 1) :
                  CandidateOutcome(k).exc # "none"
           /\ CandidateOutcome(Len(attempted)).exc = "none"
           /\ result = Return(CandidateOutcome(Len(attempted)).value)
           /\ validate_schema_structure(result.value) = "none"
    /\ (CandidatesTried /\ pc = "raised") =>
           /\ attempted = CandidateNames
           /\ \A k \in DOMAIN ModelEntries : CandidateOutcome(k).exc # "none"
           /\ result = Raise("SchemaParseError")
           /\ last_error = CandidateOutcome(Len(ModelEntries)).exc

\* Two candidates: the first cannot be read, the second is returned.
C17_Witness ==
    /\ CandidatesTried
    /\ pc = "returned"
    /\ Len(ModelEntries) = 2
    /\ Len(attempted) = 2
    /\ attempted[1] # attempted[2]
    /\ CandidateOutcome(1).exc = "BadZipFile"
    /\ result.exc = "none"

(***************************************************************************)
(* documentation.py: build_agent_context                                   *)
(***************************************************************************)
\* Line 213: the number of key measures kept.
KeyMeasuresKept == 20

category_priority ==
    [revenue |-> 1, cost |-> 2, margin |-> 3, percentage |-> 4, ratio |-> 5,
     temporal |-> 6, aggregation |-> 7, filtering |-> 8,
     calendar_intelligence |-> 9, other |-> 10]

\* The sort key of line 181 with the priority alone.
sort_key_priority_only(x) ==
    <<IF x.category \in DOMAIN category_priority
      THEN category_priority[x.category] ELSE 10, <<>>>>

\* The key of line 181.
sort_key(x) ==
    <<IF x.category \in DOMAIN category_priority
      THEN category_priority[x.category] ELSE 10, x.name>>

\* a < b for two keys, a number and a str each
KeyLess(a, b) == a[1] < b[1] \/ (a[1] = b[1] /\ StrLess(a[2], b[2]))

RECURSIVE InsertByKey(_, _)
\* x put into a sorted list after the elements whose key is not greater.
InsertByKey(x, sorted) ==
    IF sorted = <<>> THEN <<x>>
    ELSE IF KeyLess(sort_key(x), sort_key(Head(sorted)))
    THEN <<x>> \o sorted
    ELSE <<Head(sorted)>> \o InsertByKey(x, Tail(sorted))

RECURSIVE SortMeasures(_, _)
\* list.sort(key=...), a stable sort: the first k elements of list, sorted.
SortMeasures(list, k) ==
    IF k < 1 THEN <<>>
    ELSE InsertByKey(list[k], SortMeasures(list, k - 1))

\* Lines 161-173: the entry of one visible measure; format_dax_for_json
\* raises nothing for the expressions of the metadata.
key_measure(measure, table) ==
    [name |-> measure.name,
     table |-> table.name,
     expression |-> measure.expression,
     formatted_expression |-> format_dax_for_json(measure.expression).value,
     category |-> measure.category,
     complexity |-> categorize_dax_complexity(measure.expression),
     format_string |-> measure.format_string]

RECURSIVE AllMeasures(_)
\* Lines 157-173 for the business tables given.
AllMeasures(tables) ==
    IF tables = <<>> THEN <<>>
    ELSE [i \in DOMAIN VisibleOf(Head(tables).measures) |->
              key_measure(VisibleOf(Head(tables).measures)[i], Head(tables))]
         \o AllMeasures(Tail(tables))

RECURSIVE TemporalColumns(_)
\* Lines 184-192.
TemporalColumns(tables) ==
    IF tables = <<>> THEN <<>>
    ELSE Let(SelectSeq(Head(tables).columns,
                       LAMBDA col : col.category = "temporal" /\ ~col.is_hidden),
             LAMBDA cols :
                 [i \in DOMAIN cols |->
                      [name |-> cols[i].name,
                       table |-> Head(tables).name,
                       data_type |-> cols[i].data_type]])
         \o TemporalColumns(Tail(tables))

\* all_measures[:n]
Prefix(list, n) == SubSeq(list, 1, IF Len(list) < n THEN Len(list) ELSE n)

build_agent_context(metadata, lang) ==
    Let(AllMeasures(BusinessTables(metadata)),
        LAMBDA all_measures :
    [model_name |-> metadata.file_name,
     summary |->
         [total_tables |-> metadata.summary.business_tables,
          total_measures |-> metadata.summary.total_measures,
          total_relationships |-> metadata.summary.total_relationships,
          compatibility_level |-> metadata.compatibility_level],
     key_measures |->
         Prefix(SortMeasures(all_measures, Len(all_measures)), KeyMeasuresKept),
     temporal_columns |-> TemporalColumns(BusinessTables(metadata)),
     sample_questions |->
         <<get_translation(lang, "sample_question_1", NoText),
           get_translation(lang, "sample_question_2", NoText),
           get_translation(lang, "sample_question_3", NoText),
           get_translation(lang, "sample_question_4", NoText),
           get_translation(lang, "sample_question_5", NoText),
           get_translation(lang, "sample_question_6", NoText),
           get_translation(lang, "sample_question_7", NoText)>>,
     extraction_date |-> metadata.extraction_date,
     usage_notes |->
         <<get_translation(lang, "agent_usage_note_1", NoText),
           get_translation(lang, "agent_usage_note_2", NoText),
           get_translation(lang, "agent_usage_note_3", NoText),
           get_translation(lang, "agent_usage_note_4", NoText),
           get_translation(lang, "agent_usage_note_5", NoText),
           get_translation(lang, "agent_usage_note_6", NoText)>>])

BuildAgentContext ==
    /\ pc = "call"
    /\ call.fn = "build_agent_context"
    /\ Returns(build_agent_context(call.cleaned_metadata, call.lang))

(***************************************************************************)
(* The models given to build_agent_context: at most MaxAgentEntries tables *)
(* and measures, after a table of 21 visible measures (in Spanish) or      *)
(* without it (in both languages).                                         *)
(***************************************************************************)
MaxAgentEntries == 3

AgentMeasures ==
    {MeasureData(<<"T","o","t","a","l"," ","S","a","l","e","s">>, <<"S","U","M","(","x",")">>, <<"0",".","0","0">>, FALSE),
     MeasureData(<<"C","o","s","t">>, <<"S","U","M","(","y",")">>, <<>>, FALSE),
     MeasureData(<<"A","v","e","r","a","g","e">>, <<"D","I","V","I","D","E","(","a",",","b",")">>, <<>>, FALSE),
     MeasureData(<<"H","e","l","p","e","r"," ","S","a","l","e","s">>, <<"I","F","(","a",",","b",")">>, <<>>, TRUE)}

\* Measure k of the large table: its name decides its category.
LargeTableMeasure(k) ==
    MeasureData((IF k % 3 = 0 THEN <<"M","a","r","g","i","n"," ">>
                 ELSE IF k % 3 = 1 THEN <<"U","n","i","t","s"," ">> ELSE <<"C","o","s","t"," ">>)
                    \o <<Printable[17 + (k \div 10)], Printable[17 + (k % 10)]>>,
                <<"S","U","M","(","x",")">>, <<>>, FALSE)

LargeTable ==
    TableData(<<"B","u","d","g","e","t">>, FALSE, <<>>,
              [k \in 1..(KeyMeasuresKept + 1) |-> LargeTableMeasure(k)])

AgentTables(n) ==
    IF n < 1 THEN {}
    ELSE {TableData(name, is_hidden,
                    <<ColumnData(<<"D","a","t","e">>, <<"d","a","t","e","T","i","m","e">>, FALSE)>>, measures) :
              name \in MetadataTableNames, is_hidden \in BOOLEAN,
              measures \in SeqsUpTo(AgentMeasures, n - 1)}

\* A table, for the count of entries, and its measures; its column is not
\* counted.
AgentEntries(table) == 1 + Len(table.measures)

RECURSIVE AgentTableLists(_)
AgentTableLists(n) ==
    {<<>>} \cup UNION {
        {<<table>> \o rest : rest \in AgentTableLists(n - AgentEntries(table))} :
        table \in AgentTables(n)}

InitAgent ==
    \E first \in {<<>>, <<LargeTable>>} :
    \E tables \in AgentTableLists(MaxAgentEntries) :
    \E lang \in IF first = <<>> THEN {"en", "es"} ELSE {"es"} :
        Awaiting([fn |-> "build_agent_context",
                  cleaned_metadata |-> CleanedMetadata(first \o tables, <<>>),
                  lang |-> lang])

SpecAgent == InitAgent /\ [][BuildAgentContext]_vars

\* The categories in the order of their importance.
PriorityOrder ==
    <<"revenue", "cost", "margin", "percentage", "ratio", "temporal",
      "aggregation", "filtering", "calendar_intelligence", "other">>

PriorityOf(category) ==
    CHOOSE k \in DOMAIN PriorityOrder : PriorityOrder[k] = category

\* a comes before b: a more important category, or the same and a lesser name.
Before(a, b) ==
    \/ PriorityOf(a.category) < PriorityOf(b.category)
    \/ /\ a.category = b.category
       /\ StrLess(a.name, b.name)

NameTableCategory(x, table_name) ==
    [name |-> x.name, table |-> table_name, category |-> x.category]

RECURSIVE BagOfSeq(_)
BagOfSeq(list) ==
    IF list = <<>> THEN EmptyBag
    ELSE SetToBag({Head(list)}) (+) BagOfSeq(Tail(list))

RECURSIVE VisibleBusinessMeasures(_)
\* The non-hidden measures of the non-technical tables, each by its name,
\* its table and its category.
VisibleBusinessMeasures(tables) ==
    IF tables = <<>> THEN <<>>
    ELSE (IF Head(tables).is_technical THEN <<>>
          ELSE [i \in DOMAIN VisibleOf(Head(tables).measures) |->
                    NameTableCategory(VisibleOf(Head(tables).measures)[i],
                                      Head(tables).name)])
         \o VisibleBusinessMeasures(Tail(tables))

KeyMeasures ==
    [i \in DOMAIN result.value.key_measures |->
         NameTableCategory(result.value.key_measures[i],
                           result.value.key_measures[i].table)]

\* C18: key_measures holds at most 20 entries, all of them non-hidden
\* measures of non-technical tables, in the order of their category's
\* importance and, within a category, of their names; it is the first 20 of
\* all those measures in that order.
C18_KeyMeasures ==
    Done("build_agent_context") =>
        LET candidates ==
                VisibleBusinessMeasures(call.cleaned_metadata.tables)
            left == BagOfSeq(candidates) (-) BagOfSeq(KeyMeasures)
        IN  /\ result.exc = "none"
            /\ Len(KeyMeasures) <= 20
            /\ Len(KeyMeasures) = IF Len(candidates) < 20
                                  THEN Len(candidates) ELSE 20
            /\ BagOfSeq(KeyMeasures) \sqsubseteq BagOfSeq(candidates)
            /\ \A i \in 1..(Len(KeyMeasures) - 1) :
                   ~Before(KeyMeasures[i + 1], KeyMeasures[i])
            /\ \A x \in BagToSet(left) :
                   \A i \in DOMAIN KeyMeasures : ~Before(x, KeyMeasures[i])

\* 23 visible measures, the revenue measure of the last table first of the
\* 20 that are kept.
C18_Witness ==
    /\ Done("build_agent_context")
    /\ Len(VisibleBusinessMeasures(call.cleaned_metadata.tables)) = 23
    /\ Len(call.cleaned_metadata.tables) = 2
    /\ Len(result.value.key_measures) = 20
    /\ result.value.key_measures[1].name = <<"T","o","t","a","l"," ","S","a","l","e","s">>
    /\ result.value.key_measures[1].table = <<"S","a","l","e","s">>
    /\ result.value.key_measures[2].name = <<"C","o","s","t">>
    /\ result.value.key_measures[3].name = <<"C","o","s","t"," ","0","2">>

(***************************************************************************)
(* i18n.py: get_category_name and get_complexity_label                     *)
(***************************************************************************)
\* f"category_{category}" for the categories categorizer.py gives, and for
\* three categories it does not give, one of them the empty string.
CategoryKey ==
    ("custom" :> "category_custom") @@ ("my kpi" :> "category_my kpi")
        @@ ("" :> "category_") @@
    [revenue |-> "category_revenue", cost |-> "category_cost",
     margin |-> "category_margin", percentage |-> "category_percentage",
     ratio |-> "category_ratio", temporal |-> "category_temporal",
     calendar_intelligence |-> "category_calendar_intelligence",
     aggregation |-> "category_aggregation",
     filtering |-> "category_filtering", other |-> "category_other"]

\* category.title()
CategoryTitle ==
    ("custom" :> "Custom") @@ ("my kpi" :> "My Kpi") @@ ("" :> "") @@
    [revenue |-> "Revenue", cost |-> "Cost", margin |-> "Margin",
     percentage |-> "Percentage", ratio |-> "Ratio", temporal |-> "Temporal",
     calendar_intelligence |-> "Calendar_Intelligence",
     aggregation |-> "Aggregation", filtering |-> "Filtering",
     other |-> "Other"]

\* get_category_name, as the parts of the text: the translation, or the
\* default of line 166, whose suffix is chosen by lang before get_translation
\* falls back to English.
get_category_name(lang, category) ==
    Let(IF lang \notin DOMAIN TRANSLATIONS THEN "en" ELSE lang,
        LAMBDA language :
            IF CategoryKey[category] \in DOMAIN TRANSLATIONS[language]
            THEN <<TRANSLATIONS[language][CategoryKey[category]]>>
            ELSE <<CategoryTitle[category],
                   IF lang = "en" THEN " Measures" ELSE " Medidas">>)

\* f"complexity_{complexity}" for the three complexities.
ComplexityKey(complexity) ==
    IF complexity = <<"s","i","m","p","l","e">> THEN "complexity_simple"
    ELSE IF complexity = <<"m","e","d","i","u","m">> THEN "complexity_medium"
    ELSE "complexity_complex"

\* The labels are the complexity itself when no translation is found.
ComplexityText(complexity) ==
    IF complexity = <<"s","i","m","p","l","e">> THEN "simple"
    ELSE IF complexity = <<"m","e","d","i","u","m">> THEN "medium"
    ELSE "complex"

get_complexity_label(lang, complexity) ==
    get_translation(lang, ComplexityKey(complexity),
                    Text(ComplexityText(complexity)))

(***************************************************************************)
(* documentation.py: generate_markdown, one table at a time.  The document *)
(* is the sequence of its lines; a line is a sequence of pieces, each a    *)
(* text of the program or of TRANSLATIONS followed by characters of the    *)
(* metadata.  A formatted expression is one line, with its line feeds.     *)
(***************************************************************************)
Piece(text, chars) == [text |-> text, chars |-> chars]

Blank == <<>>

\* The backquote, one character.
Backquote == "BACKQUOTE"

\* `chars`
Quoted(chars) == <<Backquote>> \o chars \o <<Backquote>>

\* get_translation(lang, key)
Translated(lang, key) == Piece(get_translation(lang, key, NoText), <<>>)

\* str(n) for n >= 0
RECURSIVE ToStr(_)
ToStr(n) ==
    IF n < 10 THEN <<Printable[17 + n]>>
    ELSE ToStr(n \div 10) \o <<Printable[17 + (n % 10)]>>

\* format_dax_for_documentation, for an expression of the metadata.
format_dax_for_documentation(expression) ==
    Replace(Replace(format_dax_expression(expression).value,
                    "\\", <<"\\", "\\">>),
            Backquote, <<"\\", Backquote>>)

\* str.lower() of the translations of "from"
LowerText(text) ==
    IF text = "From" THEN "from" ELSE IF text = "Desde" THEN "desde" ELSE text

\* Lines 51-62.
category_order ==
    <<"revenue", "cost", "margin", "percentage", "ratio", "temporal",
      "calendar_intelligence", "aggregation", "filtering", "other">>

\* Lines 14-25.
MarkdownHead(metadata, lang, now) ==
    << <<Piece("# ", metadata.file_name), Piece(" - ", <<>>),
         Translated(lang, "power_bi_data_model")>>,
       Blank,
       <<Piece("**", <<>>), Translated(lang, "generated"), Piece(":** ", now)>>,
       Blank,
       <<Piece("## ", <<>>), Translated(lang, "model_summary")>>,
       Blank,
       <<Piece("- **", <<>>), Translated(lang, "business_tables"),
         Piece(":** ", ToStr(metadata.summary.business_tables))>>,
       <<Piece("- **", <<>>), Translated(lang, "total_columns"),
         Piece(":** ", ToStr(metadata.summary.total_columns))>>,
       <<Piece("- **", <<>>), Translated(lang, "total_measures"),
         Piece(":** ", ToStr(metadata.summary.total_measures))>>,
       <<Piece("- **", <<>>), Translated(lang, "relationships"),
         Piece(":** ", ToStr(metadata.summary.total_relationships))>>,
       Blank,
       <<Piece("---", <<>>)>>,
       Blank,
       <<Piece("## ", <<>>), Translated(lang, "tables_and_measures")>>,
       Blank >>

\* Lines 30-33.
TableHeading(table, lang) ==
    IF table.is_hidden
    THEN << <<Piece("### ", table.name), Piece(" *(", <<>>),
              Translated(lang, "hidden_table_measures_only"),
              Piece(")*", <<>>)>>,
            Blank >>
    ELSE << <<Piece("### ", table.name)>>, Blank >>

\* Lines 35-42.
ColumnsTable(table, lang) ==
    IF VisibleOf(table.columns) = <<>> THEN <<>>
    ELSE << <<Piece("**", <<>>), Translated(lang, "columns"),
              Piece(":**", <<>>)>>,
            Blank,
            <<Piece("| ", <<>>), Translated(lang, "column"),
              Piece(" | ", <<>>), Translated(lang, "type"),
              Piece(" | ", <<>>), Translated(lang, "category"),
              Piece(" |", <<>>)>>,
            <<Piece("|--------|------|----------|", <<>>)>> >>
         \o [i \in DOMAIN VisibleOf(table.columns) |->
                 <<Piece("| ", Quoted(VisibleOf(table.columns)[i].name)),
                   Piece(" | ", VisibleOf(table.columns)[i].data_type),
                   Piece(" | ", <<>>),
                   Piece(VisibleOf(table.columns)[i].category, <<>>),
                   Piece(" |", <<>>)>>]
         \o <<Blank>>

\* Lines 67-86: one measure.
MeasureBlock(measure, lang) ==
    << <<Piece("**", measure.name), Piece("**", <<>>), Piece(" *(", <<>>),
         Piece(get_complexity_label(
                   lang, categorize_dax_complexity(measure.expression)), <<>>),
         Piece(")*", <<>>)>>,
       Blank >>
    \o (IF measure.display_folder = <<>> THEN <<>>
        ELSE << <<Piece("*", <<>>), Translated(lang, "folder"),
                  Piece(":* ", Quoted(measure.display_folder))>>,
                Blank >>)
    \o (IF format_dax_for_documentation(measure.expression) = <<>> THEN <<>>
        ELSE << <<Piece("", <<Backquote, Backquote, Backquote, "d", "a", "x">>)>>,
                <<Piece("", format_dax_for_documentation(measure.expression))>>,
                <<Piece("", <<Backquote, Backquote, Backquote>>)>>,
                Blank >>)
    \o (IF measure.format_string = <<>> THEN <<>>
        ELSE << <<Piece("*", <<>>), Translated(lang, "format"),
                  Piece(":* ", Quoted(measure.format_string))>>,
                Blank >>)
    \o << <<Piece("---", <<>>)>>, Blank >>

RECURSIVE MeasureBlocks(_, _)
MeasureBlocks(measures, lang) ==
    IF measures = <<>> THEN <<>>
    ELSE MeasureBlock(Head(measures), lang)
             \o MeasureBlocks(Tail(measures), lang)

RECURSIVE CategoryBlocks(_, _, _)
\* Lines 63-87, from category k of category_order on.
CategoryBlocks(visible_measures, lang, k) ==
    IF k > Len(category_order) THEN <<>>
    ELSE Let(SelectSeq(visible_measures,
                       LAMBDA m : m.category = category_order[k]),
             LAMBDA measures :
                 IF measures = <<>> THEN <<>>
                 ELSE << <<Piece("##### ", <<>>)>>
                             \o [i \in DOMAIN get_category_name(
                                                  lang, category_order[k]) |->
                                     Piece(get_category_name(
                                               lang, category_order[k])[i],
                                           <<>>)],
                         Blank >>
                      \o MeasureBlocks(measures, lang)
                      \o <<Blank>>)
         \o CategoryBlocks(visible_measures, lang, k + 1)

\* Lines 44-88.
MeasuresSection(table, lang) ==
    IF VisibleOf(table.measures) = <<>> THEN <<>>
    ELSE << <<Piece("**", <<>>), Translated(lang, "measures"),
              Piece(":**", <<>>)>>,
            Blank >>
         \o CategoryBlocks(VisibleOf(table.measures), lang, 1)
         \o <<Blank>>

\* Lines 90-98.
RelationshipsSection(relationships, lang) ==
    IF relationships = <<>> THEN <<>>
    ELSE << <<Piece("## ", <<>>), Translated(lang, "relationships")>>,
            Blank,
            <<Piece("| ", <<>>), Translated(lang, "from"),
              Piece(" | ", <<>>), Translated(lang, "to"),
              Piece(" | ", <<>>), Translated(lang, "type"),
              Piece(" | ", <<>>), Translated(lang, "direction"),
              Piece(" |", <<>>)>>,
            <<Piece("|------|----|----- |-----------|", <<>>)>> >>
         \o [i \in DOMAIN relationships |->
                 <<Piece("| ", relationships[i].from_table \o <<".">>
                                   \o relationships[i].from_column),
                   Piece(" | ", relationships[i].to_table \o <<".">>
                                    \o relationships[i].to_column),
                   Piece(" | ", relationships[i].cardinality),
                   Piece(" | ", relationships[i].cross_filtering),
                   Piece(" |", <<>>)>>]
         \o <<Blank>>

\* Lines 100-107.
GuideHead(lang) ==
    << <<Piece("---", <<>>)>>,
       Blank,
       <<Piece("## ", <<>>), Translated(lang, "ai_agent_usage_guide")>>,
       Blank,
       <<Translated(lang, "usage_guide_description")>>,
       Blank,
       <<Piece("1. ", <<>>), Translated(lang, "usage_guide_1")>>,
       <<Piece("2. ", <<>>), Translated(lang, "usage_guide_2")>>,
       <<Piece("3. ", <<>>), Translated(lang, "usage_guide_3")>>,
       <<Piece("4. ", <<>>), Translated(lang, "usage_guide_4")>>,
       Blank,
       <<Piece("### ", <<>>), Translated(lang, "key_measures_available")>>,
       Blank >>

RECURSIVE GuideMeasures(_, _)
\* Lines 111-121: the visible measures of the business tables, each with the
\* name of its table.
GuideMeasures(tables, lang) ==
    IF tables = <<>> THEN <<>>
    ELSE [i \in DOMAIN VisibleOf(Head(tables).measures) |->
              [name |-> VisibleOf(Head(tables).measures)[i].name,
               table |-> Head(tables).name,
               category |-> VisibleOf(Head(tables).measures)[i].category,
               format |-> VisibleOf(Head(tables).measures)[i].format_string]]
         \o GuideMeasures(Tail(tables), lang)

\* Lines 141-147: one measure of the guide.
GuideMeasure(measure, lang) ==
    << <<Piece("- **", measure.name), Piece("** (", <<>>),
         Piece(LowerText(get_translation(lang, "from", NoText)), <<>>),
         Piece(" ", measure.table), Piece(")", <<>>)>> >>
    \o (IF measure.format = <<>> THEN <<>>
        ELSE << <<Piece("  - ", <<>>), Translated(lang, "format"),
                  Piece(": ", Quoted(measure.format))>> >>)
    \o <<Blank>>

RECURSIVE GuideMeasureLines(_, _)
GuideMeasureLines(measures, lang) ==
    IF measures = <<>> THEN <<>>
    ELSE GuideMeasure(Head(measures), lang)
             \o GuideMeasureLines(Tail(measures), lang)

\* Line 135.
guide_categories ==
    <<"revenue", "cost", "margin", "percentage", "ratio", "temporal", "other">>

RECURSIVE GuideCategories(_, _, _)
\* Lines 135-147, from category k of guide_categories on.
GuideCategories(all_measures, lang, k) ==
    IF k > Len(guide_categories) THEN <<>>
    ELSE Let(Prefix(SelectSeq(all_measures,
                              LAMBDA m : m.category = guide_categories[k]), 5),
             LAMBDA measures :
                 IF measures = <<>> THEN <<>>
                 ELSE << Blank,
                         <<Piece("#### ", <<>>)>>
                             \o [i \in DOMAIN get_category_name(
                                                  lang, guide_categories[k]) |->
                                     Piece(get_category_name(
                                               lang, guide_categories[k])[i],
                                           <<>>)]
                             \o <<Piece(":", <<>>)>>,
                         Blank >>
                      \o GuideMeasureLines(measures, lang))
         \o GuideCategories(all_measures, lang, k + 1)

\* Lines 13-25: the head of the document; the loop starts at the first
\* business table.
MarkdownStart ==
    /\ pc = "call"
    /\ call.fn = "generate_markdown"
    /\ doc' = MarkdownHead(call.cleaned_metadata, call.lang, call.now)
    /\ idx' = 1
    /\ pc' = "tables"
    /\ UNCHANGED <<call, result, cleaned_metadata, warnings, last_error,
                   context_entries, success_count, attempted, diff_files>>

\* Lines 27-88: one pass of the loop over business_tables.
MarkdownTable ==
    /\ pc = "tables"
    /\ call.fn = "generate_markdown"
    /\ idx <= Len(BusinessTables(call.cleaned_metadata))
    /\ \E table \in {BusinessTables(call.cleaned_metadata)[idx]} :
           IF table.is_hidden /\ VisibleOf(table.measures) = <<>>
           THEN UNCHANGED doc
           ELSE doc' = doc \o TableHeading(table, call.lang)
                           \o ColumnsTable(table, call.lang)
                           \o MeasuresSection(table, call.lang)
    /\ idx' = idx + 1
    /\ UNCHANGED <<pc, call, result, cleaned_metadata, warnings, last_error,
                   context_entries, success_count, attempted, diff_files>>

\* Lines 90-98: after the loop, the relationships.
MarkdownRelationships ==
    /\ pc = "tables"
    /\ call.fn = "generate_markdown"
    /\ idx > Len(BusinessTables(call.cleaned_metadata))
    /\ doc' = doc \o RelationshipsSection(call.cleaned_metadata.relationships,
                                          call.lang)
    /\ pc' = "guide"
    /\ UNCHANGED <<call, result, cleaned_metadata, idx, warnings, last_error,
                   context_entries, success_count, attempted, diff_files>>

\* Lines 100-148: the guide, and the return of the document.
MarkdownGuide ==
    /\ pc = "guide"
    /\ call.fn = "generate_markdown"
    /\ doc' = doc \o GuideHead(call.lang)
                  \o GuideCategories(
                         GuideMeasures(BusinessTables(call.cleaned_metadata),
                                       call.lang),
                         call.lang, 1)
    /\ result' = Return(doc')
    /\ pc' = "returned"
    /\ UNCHANGED <<call, cleaned_metadata, idx, warnings, last_error,
                   context_entries, success_count, attempted, diff_files>>

MarkdownNext ==
    \/ MarkdownStart
    \/ MarkdownTable
    \/ MarkdownRelationships
    \/ MarkdownGuide

\* datetime.now().strftime('%Y-%m-%d %H:%M:%S') at the call.
MarkdownNow == <<"2","0","2","4","-","0","1","-","0","1"," ","0","0",":","0","0",":","0","0">>

InitMarkdown ==
    \E tables \in MetadataTableLists(MaxMetadataEntries) :
    \E relationships \in SeqsUpTo(MetadataRelationships,
                                  MaxMetadataEntries - TotalEntries(tables)) :
    \E lang \in {"en", "es"} :
        Awaiting([fn |-> "generate_markdown",
                  cleaned_metadata |-> CleanedMetadata(tables, relationships),
                  lang |-> lang,
                  now |-> MarkdownNow])

SpecMarkdown == InitMarkdown /\ [][MarkdownNext]_vars

MarkdownReturned == pc = "returned" /\ call.fn = "generate_markdown"

\* The business tables generate_markdown documents, in order.
DocumentedTables(metadata) ==
    SelectSeq(BusinessTables(metadata), LAMBDA t : Documented(t))

\* The text a line starts with ("" for a blank line).
LineStart(line) == IF line = <<>> THEN "" ELSE line[1].text

\* A line is the heading of a table: '### ' and the name of the table.
IsTableHeading(line) == LineStart(line) = "### " /\ line[1].chars # <<>>

RECURSIVE HeadingLines(_, _)
\* The places of the table headings of a document, in order, from line i on.
HeadingLines(lines, i) ==
    IF i > Len(lines) THEN <<>>
    ELSE (IF IsTableHeading(lines[i]) THEN <<i>> ELSE <<>>)
             \o HeadingLines(lines, i + 1)

RECURSIVE SectionEnd(_, _)
\* The last line of the section that starts before line i: the line before
\* the next heading of level 2 or 3.
SectionEnd(lines, i) ==
    IF i > Len(lines) \/ LineStart(lines[i]) \in {"### ", "## "} THEN i - 1
    ELSE SectionEnd(lines, i + 1)

\* The lines of the section of the k-th table heading, the heading excluded.
TableSection(lines, k) ==
    SubSeq(lines, HeadingLines(lines, 1)[k] + 1,
           SectionEnd(lines, HeadingLines(lines, 1)[k] + 1))

\* A line belongs to a columns table: its label, its header, its rule or a
\* row.
IsColumnsTableLine(line, lang) ==
    \/ LineStart(line) \in {"| ", "|--------|------|----------|"}
    \/ /\ Len(line) >= 2
       /\ line[1] = Piece("**", <<>>)
       /\ line[2] = Translated(lang, "columns")

\* The names of the measures a section presents, in order.
SectionMeasures(section) ==
    [i \in DOMAIN SelectSeq(section,
                            LAMBDA l : LineStart(l) = "**" /\ l[1].chars # <<>>) |->
         SelectSeq(section,
                   LAMBDA l : LineStart(l) = "**" /\ l[1].chars # <<>>)[i][1].chars]

\* The presentation of a hidden table: the heading with 'Hidden Table -
\* Measures Only' in the language of the document.
IsHiddenHeading(line, table, lang) ==
    line = <<Piece("### ", table.name), Piece(" *(", <<>>),
             Piece(TRANSLATIONS[lang].hidden_table_measures_only, <<>>),
             Piece(")*", <<>>)>>

\* The measures of a table under their categories, in the order of lines
\* 51-62, by name.
RECURSIVE MeasuresByCategory(_, _)
MeasuresByCategory(measures, k) ==
    IF k > Len(category_order) THEN <<>>
    ELSE [i \in DOMAIN SelectSeq(measures,
                                 LAMBDA m : m.category = category_order[k]) |->
              SelectSeq(measures,
                        LAMBDA m : m.category = category_order[k])[i].name]
         \o MeasuresByCategory(measures, k + 1)

\* C20: in the document generate_markdown returns, each hidden table that is
\* documented is presented as 'Hidden Table - Measures Only': its heading
\* carries that label, its section holds its visible measures and only them,
\* and the section holds no columns table.
C20_HiddenTableMeasuresOnly ==
    MarkdownReturned =>
        /\ Len(HeadingLines(doc, 1)) =
               Len(DocumentedTables(call.cleaned_metadata))
        /\ \A k \in DOMAIN DocumentedTables(call.cleaned_metadata) :
               DocumentedTables(call.cleaned_metadata)[k].is_hidden =>
                   /\ IsHiddenHeading(
                          doc[HeadingLines(doc, 1)[k]],
                          DocumentedTables(call.cleaned_metadata)[k],
                          call.lang)
                   /\ SectionMeasures(TableSection(doc, k)) =
                          MeasuresByCategory(
                              VisibleOf(DocumentedTables(
                                            call.cleaned_metadata)[k].measures),
                              1)
                   /\ \A i \in DOMAIN TableSection(doc, k) :
                          ~IsColumnsTableLine(TableSection(doc, k)[i],
                                              call.lang)

\* A hidden table with a visible column and a visible measure is documented,
\* and the row of the column stands in its section.
C20_Witness ==
    /\ MarkdownReturned
    /\ result = Return(doc)
    /\ Len(DocumentedTables(call.cleaned_metadata)) >= 1
    /\ DocumentedTables(call.cleaned_metadata)[1].is_hidden
    /\ VisibleOf(DocumentedTables(call.cleaned_metadata)[1].measures) # <<>>
    /\ IsHiddenHeading(doc[HeadingLines(doc, 1)[1]],
                       DocumentedTables(call.cleaned_metadata)[1], call.lang)
    /\ \E i \in DOMAIN TableSection(doc, 1) :
           TableSection(doc, 1)[i] =
               <<Piece("| ", Quoted(<<"A","m","o","u","n","t">>)),
                 Piece(" | ", <<"d","e","c","i","m","a","l">>),
                 Piece(" | ", <<>>),
                 Piece("metric", <<>>),
                 Piece(" |", <<>>)>>

\* What holds of the same tables: the heading carries the label and the
\* section holds the visible measures and only them.
C20_HiddenHeadingAndMeasures ==
    MarkdownReturned =>
        /\ Len(HeadingLines(doc, 1)) =
               Len(DocumentedTables(call.cleaned_metadata))
        /\ \A k \in DOMAIN DocumentedTables(call.cleaned_metadata) :
               DocumentedTables(call.cleaned_metadata)[k].is_hidden =>
                   /\ IsHiddenHeading(
                          doc[HeadingLines(doc, 1)[k]],
                          DocumentedTables(call.cleaned_metadata)[k],
                          call.lang)
                   /\ SectionMeasures(TableSection(doc, k)) =
                          MeasuresByCategory(
                              VisibleOf(DocumentedTables(
                                            call.cleaned_metadata)[k].measures),
                              1)

\* The columns table stands in the section of a documented table, hidden or
\* not, exactly when the table has a visible column.
C20_ColumnsTableWhenVisibleColumns ==
    MarkdownReturned =>
        \A k \in DOMAIN DocumentedTables(call.cleaned_metadata) :
            (\E i \in DOMAIN TableSection(doc, k) :
                 IsColumnsTableLine(TableSection(doc, k)[i], call.lang))
            <=> VisibleOf(DocumentedTables(
                              call.cleaned_metadata)[k].columns) # <<>>

(***************************************************************************)
(* cli.py: main with --diff A B                                            *)
(***************************************************************************)
\* main reaches line 180 with the two paths: output directory made.
DiffMode ==
    /\ call.fn = "main"
    /\ call.output_created
    /\ call.diff # <<>>

\* The outcomes of process_file for the first n of the two models are all
\* a return.
ProcessedSuccessfully(n) ==
    \A i \in 1..n : call.diff[i].outcome = "ok"

\* C21: in diff mode main processes model A before model B; the diff file is
\* written only after both models have been processed successfully, and main
\* returns 0 in that case; if processing of either model fails, no diff file
\* is written, model B is not processed when A failed, and main returns 1.
C21_DiffMode ==
    /\ (DiffMode /\ pc = "diff") =>
           /\ attempted = SubSeq(PathsOf(call.diff), 1, idx - 1)
           /\ ProcessedSuccessfully(idx - 1)
           /\ diff_files = <<>>
    /\ (DiffMode /\ pc = "returned") =>
           /\ result.exc = "none"
           /\ result.value \in {0, 1}
           /\ diff_files # <<>> =>
                  /\ attempted = PathsOf(call.diff)
                  /\ ProcessedSuccessfully(2)
                  /\ diff_files = <<DiffName(call.diff[1].path,
                                             call.diff[2].path)>>
                  /\ result.value = 0
           /\ (ProcessedSuccessfully(2) /\ call.diff_write = "ok") =>
                  /\ diff_files # <<>>
                  /\ result.value = 0
           /\ ~ProcessedSuccessfully(2) =>
                  /\ diff_files = <<>>
                  /\ result.value = 1
           /\ ~ProcessedSuccessfully(1) =>
                  attempted = <<call.diff[1].path>>
           /\ (ProcessedSuccessfully(1) /\ ~ProcessedSuccessfully(2)) =>
                  attempted = PathsOf(call.diff)

\* Both models are processed, A first, and the diff file is written.
C21_Witness ==
    /\ DiffMode
    /\ pc = "returned"
    /\ call.diff[1].path # call.diff[2].path
    /\ attempted = <<call.diff[1].path, call.diff[2].path>>
    /\ diff_files = <<<<"d","i","f","f","_","m","o","d","e","l","1","_","v","s","_","m","o","d","e","l","2",".","j","s","o","n">>>>
    /\ result = Return(0)

\* Model A fails: B is not processed, no diff file, 1.
C21_WitnessFailure ==
    /\ DiffMode
    /\ pc = "returned"
    /\ call.diff[1].outcome = "ProcessingError"
    /\ call.diff[2].outcome = "ok"
    /\ attempted = <<call.diff[1].path>>
    /\ diff_files = <<>>
    /\ result = Return(1)

(***************************************************************************)
(* process_schema: the table counts of the summary                         *)
(***************************************************************************)
ProcessSchemaReturned == call.fn = "process_schema" /\ pc = "returned"

\* C22: whenever process_schema returns, summary.total_tables equals
\* summary.business_tables + summary.technical_tables, which equals the
\* number of entries of the 'tables' list of the output.
C22_TotalTablesConsistent ==
    ProcessSchemaReturned =>
        /\ result.exc = "none"
        /\ result.value.summary.total_tables =
               result.value.summary.business_tables
                   + result.value.summary.technical_tables
        /\ result.value.summary.business_tables
                   + result.value.summary.technical_tables =
               Len(result.value.tables)

\* A table entry without a name is skipped with a warning and a well-formed
\* table follows: two tables are counted in total_tables, one is listed.
C22_Witness ==
    /\ ProcessSchemaReturned
    /\ Len(SchemaTables) = 2
    /\ SchemaTables[1] = JDict([columns |-> JList(<<>>)])
    /\ SchemaTables[2] = JDict([name |-> JStr(<<"S","a","l","e","s">>)])
    /\ warnings = <<[kind |-> "table", index |-> 0]>>
    /\ result.value.summary.total_tables = 2
    /\ result.value.summary.business_tables = 1
    /\ result.value.summary.technical_tables = 0
    /\ Len(result.value.tables) = 1

\* What holds whenever process_schema returns: the tables of the output are
\* the business and the technical tables counted, and total_tables is the
\* number of entries of the input list, the skipped ones included.
C22_ListedTablesCounted ==
    ProcessSchemaReturned =>
        /\ result.value.summary.business_tables
                   + result.value.summary.technical_tables =
               Len(result.value.tables)
        /\ result.value.summary.business_tables =
               Len(SelectSeq(result.value.tables, LAMBDA t : ~t.is_technical))
        /\ result.value.summary.total_tables = Len(SchemaTables)
        /\ result.value.summary.total_tables - Len(result.value.tables) =
               Len(SelectSeq(warnings, LAMBDA w : w.kind = "table"))

(***************************************************************************)
(* i18n.py: get_category_name called with a language code and a category   *)
(***************************************************************************)
CategoryNameCalls ==
    [fn : {"get_category_name"}, lang : Languages, category : DOMAIN CategoryKey]

GetCategoryName ==
    /\ pc = "call"
    /\ call.fn = "get_category_name"
    /\ Returns(get_category_name(call.lang, call.category))

SpecCategoryName == PureInit(CategoryNameCalls) /\ [][GetCategoryName]_vars

\* C23: for every language code that is no key of TRANSLATIONS and every
\* category, one that TRANSLATIONS names or not, get_category_name returns
\* what it returns for "en" with the same category.
C23_CategoryNameFallsBackToEnglish ==
    (Done("get_category_name") /\ call.lang \notin DOMAIN TRANSLATIONS)
        => /\ result.exc = "none"
           /\ result.value = get_category_name("en", call.category)

\* get_category_name("fr", "custom") is 'Custom Medidas', and for "en" it is
\* 'Custom Measures'.
C23_Witness ==
    /\ Done("get_category_name")
    /\ call.lang = "fr"
    /\ call.category = "custom"
    /\ result = Return(<<"Custom", " Medidas">>)
    /\ get_category_name("en", call.category) = <<"Custom", " Measures">>

\* What holds: for a category that the English table names, every language
\* code that is no key of TRANSLATIONS gives the English name; for another
\* category it gives the title of the category followed by ' Medidas'.
C23_FallbackByCategory ==
    (Done("get_category_name") /\ call.lang \notin DOMAIN TRANSLATIONS)
        => IF CategoryKey[call.category] \in DOMAIN TRANSLATIONS["en"]
           THEN result =
                    Return(<<TRANSLATIONS["en"][CategoryKey[call.category]]>>)
           ELSE result =
                    Return(<<CategoryTitle[call.category], " Medidas">>)

=============================================================================
